---- MODULE Spec2Model ----
(***************************************************************************)
(* The quiz session state store of the quiz editor                         *)
(* (src/src/app/editor/components/quiz/QuizStateManager.tsx): the          *)
(* QuizState record held by the provider, the reducers its callbacks pass  *)
(* to setState, the once-per-second timer effect, and the saved copy of    *)
(* the state under the local-storage key.                                  *)
(*                                                                         *)
(* A reducer of the source (the function given to setState) is an operator *)
(* of the same name taking the previous state; the callback that applies   *)
(* it is the action with the capitalised name.  React commits the new      *)
(* state and runs the effects whose dependencies changed before the next   *)
(* event or timer callback is dispatched, so each action commits the state *)
(* and re-runs the timer effect in one step.                               *)
(*                                                                         *)
(* Around the store: the editor that consumes it                           *)
(* (src/src/app/editor/types.ts, EditorContent), with its pages, preview   *)
(* mode, summary, auto-progress and total-elements effects and the         *)
(* callbacks they schedule, and the scoring of the multiple-choice         *)
(* question (src/src/app/editor/components/quiz/MultipleChoice.tsx).  In   *)
(* the specifications of the store alone the editor stays as it is         *)
(* mounted: not in preview mode, one empty page, nothing scheduled.        *)
(***************************************************************************)
EXTENDS Integers, Sequences, FiniteSets, TLC

VARIABLES
  state,      \* the QuizState held by useState
  intervals,  \* handles of the setInterval timers that are live
  interval,   \* the handle held by the current timer effect's closure
  storage,    \* localStorage[SAVE_KEY]
  now,        \* wall-clock time, in seconds
  mounted,    \* whether the QuizStateProvider is mounted
  last,       \* the last operation applied and its arguments
  supplied,   \* per element, the total its latest updateScore call was given
  isPreviewMode,        \* the editor's useState values of the same names
  showSummary,
  pages,
  currentPageIndex,
  isPageTransitioning,
  timeouts,   \* the setTimeout callbacks that are pending
  frames,     \* the requestAnimationFrame callbacks that are pending
  autoSave,   \* the seconds since QuizProgress set up its auto-save interval
  elements,   \* the editor's useState values of the same names
  history,
  historyIndex,
  piecesState \* the useState value of the jigsaw puzzle on the canvas

editorVars ==
  <<isPreviewMode, showSummary, pages, currentPageIndex, isPageTransitioning,
    timeouts, frames, elements, history, historyIndex, piecesState>>

vars ==
  <<state, intervals, interval, storage, now, mounted, last, supplied, editorVars,
    autoSave>>

(***************************************************************************)
(* Bounds of the model.                                                    *)
(***************************************************************************)
MaxAttempts == 2     \* updateScore calls per element
MaxTime == 3         \* seconds of wall-clock time
MaxElements == 1     \* largest count given to setTotalElements

ElementIds == {"e1", "e2"}
Scores == {0, 50, 100}
Totals == {50, 100}
Messages == {"Correct!"}

(***************************************************************************)
(* Values.  A Date, the ISO string JSON.stringify turns it into, and       *)
(* undefined are told apart by kind; t is the second the value denotes.    *)
(***************************************************************************)
Undefined == [kind |-> "undefined", t |-> 0]
DateAt(t) == [kind |-> "Date", t |-> t]
IsoAt(t) == [kind |-> "string", t |-> t]
Truthy(v) == v.kind # "undefined"

NoHandle == 0

\* The empty object {} of a Record<string, ...>.
EmptyMap == [e \in {} |-> 0]

ZeroState ==
  [ currentScore |-> 0,
    totalScore |-> 0,
    progress |-> EmptyMap,
    feedback |-> EmptyMap,
    startTime |-> Undefined,
    endTime |-> Undefined,
    timeElapsed |-> 0,
    isPaused |-> FALSE,
    isTimerActive |-> FALSE,
    totalElements |-> 0,
    completedElements |-> 0,
    lastSavedState |-> Undefined ]

(***************************************************************************)
(* Helpers of the reducers.                                                *)
(***************************************************************************)
\* { ...map, [key]: value }
Put(map, key, value) ==
  [k \in DOMAIN map \cup {key} |-> IF k = key THEN value ELSE map[k]]

\* Object.values(progress).reduce((sum, item) => sum + item.score, 0)
RECURSIVE SumScores(_, _)
SumScores(progress, S) ==
  IF S = {} THEN 0
  ELSE LET e == CHOOSE x \in S : TRUE
       IN progress[e].score + SumScores(progress, S \ {e})

\* Object.values(progress).reduce((sum, _item) => sum + total, 0)
RECURSIVE SumTotal(_, _)
SumTotal(S, total) ==
  IF S = {} THEN 0
  ELSE LET e == CHOOSE x \in S : TRUE
       IN total + SumTotal(S \ {e}, total)

\* Object.values(progress).filter(item => item.completed).length
CountCompleted(progress) ==
  Cardinality({e \in DOMAIN progress : progress[e].completed})

(***************************************************************************)
(* The reducers: each is the function the callback gives to setState.      *)
(***************************************************************************)
\* updateScore adding the new score to the element's old one
updateScoreAdditive(prev, elementId, score, total, date) ==
  LET old == prev.progress
      newProgress ==
        Put(old, elementId,
            [ completed |-> IF elementId \in DOMAIN old
                            THEN old[elementId].completed ELSE FALSE,
              score |-> (IF elementId \in DOMAIN old
                         THEN old[elementId].score ELSE 0) + score,
              attempts |-> (IF elementId \in DOMAIN old
                            THEN old[elementId].attempts ELSE 0) + 1,
              lastAttempt |-> date ])
  IN [prev EXCEPT !.currentScore = SumScores(newProgress, DOMAIN newProgress),
                  !.totalScore = SumTotal(DOMAIN newProgress, total),
                  !.progress = newProgress,
                  !.completedElements = CountCompleted(newProgress)]

\* updateScore adding every call's total to the denominator
updateScoreAccumulatesMax(prev, elementId, score, total, date) ==
  LET old == prev.progress
      newProgress ==
        Put(old, elementId,
            [ completed |-> IF elementId \in DOMAIN old
                            THEN old[elementId].completed ELSE FALSE,
              score |-> score,
              attempts |-> (IF elementId \in DOMAIN old
                            THEN old[elementId].attempts ELSE 0) + 1,
              lastAttempt |-> date ])
  IN [prev EXCEPT !.currentScore = SumScores(newProgress, DOMAIN newProgress),
                  !.totalScore = prev.totalScore + total,
                  !.progress = newProgress,
                  !.completedElements = CountCompleted(newProgress)]

updateScore(prev, elementId, score, total, date) ==
  LET old == prev.progress
      newProgress ==
        Put(old, elementId,
            [ completed |-> IF elementId \in DOMAIN old
                            THEN old[elementId].completed ELSE FALSE,
              score |-> score,
              attempts |-> (IF elementId \in DOMAIN old
                            THEN old[elementId].attempts ELSE 0) + 1,
              lastAttempt |-> date ])
      totalScore == SumScores(newProgress, DOMAIN newProgress)
      maxScore == SumTotal(DOMAIN newProgress, total)
      completedElements == CountCompleted(newProgress)
  IN [prev EXCEPT !.currentScore = totalScore,
                  !.totalScore = maxScore,
                  !.progress = newProgress,
                  !.completedElements = completedElements]

\* updateProgress counting the completed entries of the previous progress
updateProgressStaleCount(prev, elementId, completed) ==
  LET old == prev.progress
      existingProgress ==
        IF elementId \in DOMAIN old THEN old[elementId]
        ELSE [completed |-> FALSE, score |-> 0, attempts |-> 0,
              lastAttempt |-> Undefined]
  IN [prev EXCEPT !.progress =
                    Put(old, elementId, [existingProgress EXCEPT !.completed = completed]),
                  !.completedElements = CountCompleted(old)]

\* updateProgress starting the element's entry afresh
updateProgressResetsEntry(prev, elementId, completed) ==
  LET old == prev.progress
      existingProgress ==
        [completed |-> FALSE, score |-> 0, attempts |-> 0, lastAttempt |-> Undefined]
      newProgress ==
        Put(old, elementId, [existingProgress EXCEPT !.completed = completed])
      completedElements == CountCompleted(newProgress)
  IN [prev EXCEPT !.progress = newProgress,
                  !.completedElements = completedElements]

updateProgress(prev, elementId, completed) ==
  LET old == prev.progress
      existingProgress ==
        IF elementId \in DOMAIN old THEN old[elementId]
        ELSE [completed |-> FALSE, score |-> 0, attempts |-> 0,
              lastAttempt |-> Undefined]
      newProgress ==
        Put(old, elementId, [existingProgress EXCEPT !.completed = completed])
      completedElements == CountCompleted(newProgress)
  IN [prev EXCEPT !.progress = newProgress,
                  !.completedElements = completedElements]

setFeedback(prev, elementId, isCorrect, message) ==
  [prev EXCEPT !.feedback =
     Put(@, elementId, [isCorrect |-> isCorrect, message |-> message])]

\* startQuiz starting from a clean slate
startQuizClearsProgress(prev, date) ==
  [prev EXCEPT !.startTime = date,
               !.endTime = Undefined,
               !.isTimerActive = TRUE,
               !.isPaused = FALSE,
               !.timeElapsed = 0,
               !.progress = EmptyMap,
               !.completedElements = 0]

startQuiz(prev, date) ==
  [prev EXCEPT !.startTime = date,
               !.endTime = Undefined,
               !.isTimerActive = TRUE,
               !.isPaused = FALSE,
               !.timeElapsed = 0]

pauseQuiz(prev) ==
  [prev EXCEPT !.isPaused = TRUE, !.isTimerActive = FALSE]

resumeQuiz(prev) ==
  [prev EXCEPT !.isPaused = FALSE, !.isTimerActive = TRUE]

endQuiz(prev, date) ==
  [prev EXCEPT !.endTime = date, !.isTimerActive = FALSE]

\* resetQuiz leaving the elapsed time as it is
resetQuizKeepsTime(prev) == [ZeroState EXCEPT !.timeElapsed = prev.timeElapsed]

resetQuiz(prev) == ZeroState

\* setTotalElements starting the count of completed elements again
setTotalElementsRecounts(prev, count) ==
  IF prev.totalElements = count THEN prev
  ELSE [prev EXCEPT !.totalElements = count, !.completedElements = 0]

setTotalElements(prev, count) ==
  IF prev.totalElements = count THEN prev
  ELSE [prev EXCEPT !.totalElements = count]

\* the callback of setInterval
tick(prev) == [prev EXCEPT !.timeElapsed = @ + 1]

\* formatTime(seconds): the text is kept as the numbers it is made of; the
\* hours are left out of it when they are 0.
formatTime(seconds) ==
  LET hours == seconds \div 3600
      minutes == (seconds % 3600) \div 60
      remainingSeconds == seconds % 60
  IN IF hours > 0 THEN <<hours, minutes, remainingSeconds>>
     ELSE <<minutes, remainingSeconds>>

\* getCompletionSummary dividing by totalElements whatever it is
getCompletionSummaryUnguarded(s) ==
  LET completionPercentage ==
        [kind |-> IF s.totalElements # 0 THEN "ratio"
                  ELSE IF s.completedElements = 0 THEN "NaN" ELSE "Infinity",
         n |-> s.completedElements * 100,
         d |-> IF s.totalElements # 0 THEN s.totalElements ELSE 1]
  IN [ totalScore |-> s.currentScore,
       completionPercentage |-> completionPercentage,
       timeSpent |-> formatTime(s.timeElapsed),
       completedElements |-> s.completedElements,
       totalElements |-> s.totalElements ]

\* A number is the ratio n / d of two integers.
getCompletionSummary(s) ==
  LET completionPercentage ==
        IF s.totalElements > 0
        THEN [kind |-> "ratio", n |-> s.completedElements * 100, d |-> s.totalElements]
        ELSE [kind |-> "ratio", n |-> 0, d |-> 1]
  IN [ totalScore |-> s.currentScore,
       completionPercentage |-> completionPercentage,
       timeSpent |-> formatTime(s.timeElapsed),
       completedElements |-> s.completedElements,
       totalElements |-> s.totalElements ]

(***************************************************************************)
(* The timer effect (useEffect on [startTime, endTime, isPaused]).         *)
(***************************************************************************)
\* the effect's condition without the isPaused test
TimerConditionIgnoresPause(s) ==
  Truthy(s.startTime) /\ ~Truthy(s.endTime)

\* the effect's condition without the endTime test
TimerConditionIgnoresEnd(s) ==
  Truthy(s.startTime) /\ ~s.isPaused

TimerCondition(s) ==
  Truthy(s.startTime) /\ ~Truthy(s.endTime) /\ ~s.isPaused

TimerDeps(s) == <<s.startTime, s.endTime, s.isPaused>>

\* clearInterval(h): clearing undefined is a no-op
clearInterval(live, h) == live \ {h}

\* the handle setInterval returns: one that is not in use
NewHandle(used) ==
  CHOOSE h \in 1..(Cardinality(used) + 1) : h \notin used

\* the effect without its cleanup: the previous interval is never cleared
TimerEffectNoCleanup(live, held, s) ==
  LET created == NewHandle(live \cup {held})
  IN IF TimerCondition(s)
     THEN [live |-> live \cup {created}, held |-> created]
     ELSE [live |-> live, held |-> NoHandle]

\* One run of the effect: the cleanup of the previous run, then the body.
TimerEffect(live, held, s) ==
  LET cleared == clearInterval(live, held)
      created == NewHandle(live \cup {held})
  IN IF TimerCondition(s)
     THEN [live |-> cleared \cup {created}, held |-> created]
     ELSE [live |-> cleared, held |-> NoHandle]

(***************************************************************************)
(* The auto-save effect of QuizProgress (src/unnamed/part_000), which the  *)
(* editor renders in preview mode: useEffect on [state.isTimerActive,      *)
(* state.isPaused, saveQuizState, totalElements].  saveQuizState is a      *)
(* useCallback on [state], a new function with every new state, so the     *)
(* effect clears its interval and sets up a new one whenever the state     *)
(* changes.  `changed`: QuizProgress is mounted by this render or the       *)
(* state is a new one.  With totalElements 0 the effect sets up nothing.   *)
(***************************************************************************)
NoTimer == -1
AutoSavePeriod == 60   \* seconds: setInterval(..., 60000)

AutoSaveEffect(age, preview, changed, s) ==
  IF ~preview THEN NoTimer
  ELSE IF changed THEN (IF s.totalElements = 0 THEN NoTimer ELSE 0)
  ELSE age

\* setState(next) and the render it causes.  freshDate: the reducer put a
\* new Date object into a dependency of the effect (Object.is tells two
\* Date objects apart even when they denote the same time).
Commit(next, freshDate) ==
  /\ state' = next
  /\ autoSave' = AutoSaveEffect(autoSave, isPreviewMode, freshDate \/ next # state, next)
  /\ IF freshDate \/ TimerDeps(next) # TimerDeps(state)
     THEN LET r == TimerEffect(intervals, interval, next)
          IN intervals' = r.live /\ interval' = r.held
     ELSE UNCHANGED <<intervals, interval>>

(***************************************************************************)
(* Persistence: the item under SAVE_KEY.  kind "null": getItem returns     *)
(* null; "unparsable": JSON.parse throws; "jsonNull", "jsonScalar": the    *)
(* text parses to null or to a number; "object": it parses to an object    *)
(* with the properties `fields`, whose values are in `data`.               *)
(***************************************************************************)
RequiredFields ==
  { "currentScore", "totalScore", "progress", "feedback", "timeElapsed",
    "isPaused", "isTimerActive", "totalElements", "completedElements" }

Item(kind, fields, data) == [kind |-> kind, fields |-> fields, data |-> data]

NullItem == Item("null", {}, ZeroState)

\* JSON.stringify of a Date is its ISO string.
ToJSON(v) == IF v.kind = "Date" THEN IsoAt(v.t) ELSE v

\* JSON.stringify({ ...state, lastSavedState: new Date().toISOString() }):
\* properties whose value is undefined are left out.
Stringify(s, t) ==
  LET data ==
        [s EXCEPT !.startTime = ToJSON(@),
                  !.endTime = ToJSON(@),
                  !.progress = [e \in DOMAIN s.progress |->
                                  [s.progress[e] EXCEPT !.lastAttempt = ToJSON(@)]],
                  !.lastSavedState = IsoAt(t)]
  IN Item("object",
          RequiredFields \cup {"lastSavedState"}
            \cup (IF Truthy(s.startTime) THEN {"startTime"} ELSE {})
            \cup (IF Truthy(s.endTime) THEN {"endTime"} ELSE {}),
          data)

\* The parsed object read as a QuizState: a property that is absent reads
\* as undefined.
AsState(v) ==
  [v.data EXCEPT
     !.startTime = IF "startTime" \in v.fields THEN @ ELSE Undefined,
     !.endTime = IF "endTime" \in v.fields THEN @ ELSE Undefined,
     !.lastSavedState = IF "lastSavedState" \in v.fields THEN @ ELSE Undefined]

TypeOf(v) == IF v.kind \in {"object", "jsonNull"} THEN "object" ELSE "number"

\* the shape check without its last property
isValidQuizStateShort(v) ==
  /\ TypeOf(v) = "object"
  /\ v.kind # "jsonNull"
  /\ \A f \in RequiredFields \ {"completedElements"} : f \in v.fields

isValidQuizState(v) ==
  /\ TypeOf(v) = "object"
  /\ v.kind # "jsonNull"
  /\ \A f \in RequiredFields : f \in v.fields

\* The body of loadQuizState: the state it leaves and how it ended
\* ("skipped": nothing saved; "caught": JSON.parse threw inside the try;
\* "invalid": the shape check failed; "loaded": setState(parsedState)).
loadQuizState(prev, savedState) ==
  IF savedState.kind = "null" THEN [state |-> prev, outcome |-> "skipped"]
  ELSE IF savedState.kind = "unparsable" THEN [state |-> prev, outcome |-> "caught"]
  ELSE IF isValidQuizState(savedState)
       THEN [state |-> AsState(savedState), outcome |-> "loaded"]
       ELSE [state |-> prev, outcome |-> "invalid"]

\* What something other than saveQuizState can leave under the key: no
\* item, text that is no JSON, JSON that is no object, and a saved zero
\* state that lacks one of its required properties.
ForeignItems ==
  { NullItem, Item("unparsable", {}, ZeroState), Item("jsonNull", {}, ZeroState),
    Item("jsonScalar", {}, ZeroState) }
  \cup { Item("object", Stringify(ZeroState, 0).fields \ {f}, Stringify(ZeroState, 0).data)
         : f \in RequiredFields }

\* Payloads that pass the shape check and that saveQuizState did not
\* write: a saved zero state whose completedElements is 1, and one whose
\* progress holds a completed entry that completedElements does not count.
InconsistentItems ==
  LET saved == Stringify(ZeroState, 0)
  IN { Item("object", saved.fields, [saved.data EXCEPT !.completedElements = 1]),
       Item("object", saved.fields,
            [saved.data EXCEPT !.progress =
               Put(EmptyMap, "e1", [completed |-> TRUE, score |-> 0, attempts |-> 0,
                                    lastAttempt |-> Undefined])]) }

(***************************************************************************)
(* The operations.                                                         *)
(***************************************************************************)
Op(name) ==
  [op |-> name, elementId |-> "", score |-> 0, total |-> 0, flag |-> FALSE,
   outcome |-> "", selected |-> {}, count |-> 0, revealed |-> {},
   validated |-> <<>>, summary |-> <<>>, resized |-> <<>>]

Attempts(e) ==
  IF e \in DOMAIN state.progress THEN state.progress[e].attempts ELSE 0

UpdateScore(elementId, score, total) ==
  /\ mounted
  /\ Attempts(elementId) < MaxAttempts
  /\ Commit(updateScore(state, elementId, score, total, DateAt(now)), FALSE)
  /\ last' = [Op("updateScore") EXCEPT !.elementId = elementId,
                                       !.score = score, !.total = total]
  /\ supplied' = Put(supplied, elementId, total)
  /\ UNCHANGED <<storage, now, mounted, editorVars>>

UpdateProgress(elementId, completed) ==
  /\ mounted
  /\ Commit(updateProgress(state, elementId, completed), FALSE)
  /\ last' = [Op("updateProgress") EXCEPT !.elementId = elementId,
                                          !.flag = completed]
  /\ UNCHANGED <<storage, now, mounted, supplied, editorVars>>

SetFeedback(elementId, isCorrect, message) ==
  /\ mounted
  /\ Commit(setFeedback(state, elementId, isCorrect, message), FALSE)
  /\ last' = [Op("setFeedback") EXCEPT !.elementId = elementId,
                                       !.flag = isCorrect]
  /\ UNCHANGED <<storage, now, mounted, supplied, editorVars>>

StartQuiz ==
  /\ mounted
  /\ Commit(startQuiz(state, DateAt(now)), TRUE)
  /\ last' = Op("startQuiz")
  /\ UNCHANGED <<storage, now, mounted, supplied, editorVars>>

PauseQuiz ==
  /\ mounted
  /\ Commit(pauseQuiz(state), FALSE)
  /\ last' = Op("pauseQuiz")
  /\ UNCHANGED <<storage, now, mounted, supplied, editorVars>>

ResumeQuiz ==
  /\ mounted
  /\ Commit(resumeQuiz(state), FALSE)
  /\ last' = Op("resumeQuiz")
  /\ UNCHANGED <<storage, now, mounted, supplied, editorVars>>

EndQuiz ==
  /\ mounted
  /\ Commit(endQuiz(state, DateAt(now)), TRUE)
  /\ last' = Op("endQuiz")
  /\ UNCHANGED <<storage, now, mounted, supplied, editorVars>>

ResetQuiz ==
  /\ mounted
  /\ Commit(resetQuiz(state), FALSE)
  /\ last' = Op("resetQuiz")
  /\ UNCHANGED <<storage, now, mounted, supplied, editorVars>>

\* last.flag: the count given is the totalElements of the state (the
\* reducer returns prev)
SetTotalElements(count) ==
  /\ mounted
  /\ Commit(setTotalElements(state, count), FALSE)
  /\ last' = [Op("setTotalElements") EXCEPT !.count = count,
                                            !.flag = (state.totalElements = count)]
  /\ UNCHANGED <<storage, now, mounted, supplied, editorVars>>

SaveQuizState ==
  /\ mounted
  /\ storage' = Stringify(state, now)
  /\ last' = Op("saveQuizState")
  /\ UNCHANGED <<state, intervals, interval, now, mounted, supplied, editorVars,
                 autoSave>>

LoadQuizState ==
  /\ mounted
  /\ LET r == loadQuizState(state, storage)
     IN /\ Commit(r.state, FALSE)
        /\ last' = [Op("loadQuizState") EXCEPT !.outcome = r.outcome]
  /\ UNCHANGED <<storage, now, mounted, supplied, editorVars>>

\* getCompletionSummary() only reads the state of its render.
GetCompletionSummary ==
  /\ mounted
  /\ last' = [Op("getCompletionSummary") EXCEPT !.summary = getCompletionSummary(state)]
  /\ UNCHANGED <<state, intervals, interval, storage, now, mounted, supplied,
                 editorVars, autoSave>>

\* One second of wall-clock time: every live interval calls back once.
RECURSIVE Ticks(_, _)
Ticks(s, n) == IF n = 0 THEN s ELSE Ticks(tick(s), n - 1)

\* A second passes, up to the second `limit`.  A tick is a new state, with
\* which the auto-save effect sets its interval up again; an auto-save
\* interval that has been left alone for AutoSavePeriod seconds calls back:
\* if (state.isTimerActive && !state.isPaused) saveQuizState(), with the
\* state of the render that set it up, which is the state there is.
\* last.flag: the callback saved.
Elapse(limit) ==
  /\ now < limit
  /\ now' = now + 1
  /\ LET next == IF mounted THEN Ticks(state, Cardinality(intervals)) ELSE state
         due == autoSave # NoTimer /\ next = state /\ autoSave + 1 = AutoSavePeriod
         saves == due /\ state.isTimerActive /\ ~state.isPaused
     IN /\ state' = next
        /\ autoSave' = (IF autoSave = NoTimer THEN NoTimer
                        ELSE IF next # state \/ due THEN 0
                        ELSE autoSave + 1)
        /\ storage' = (IF saves THEN Stringify(state, now') ELSE storage)
        /\ last' = [Op("tick") EXCEPT !.flag = saves]
  /\ UNCHANGED <<intervals, interval, mounted, supplied, editorVars>>

Tick == Elapse(MaxTime)

\* The provider unmounts: the effect's cleanup runs.
Unmount ==
  /\ mounted
  /\ mounted' = FALSE
  /\ intervals' = clearInterval(intervals, interval)
  /\ interval' = NoHandle
  /\ autoSave' = NoTimer
  /\ last' = Op("unmount")
  /\ UNCHANGED <<state, storage, now, supplied, editorVars>>

\* The provider mounts: useState's initial value, then the effect's first run.
Mount ==
  /\ ~mounted
  /\ mounted' = TRUE
  /\ state' = ZeroState
  /\ LET r == TimerEffect(intervals, NoHandle, ZeroState)
     IN intervals' = r.live /\ interval' = r.held
  /\ autoSave' = NoTimer
  /\ last' = Op("mount")
  /\ UNCHANGED <<storage, now, supplied, editorVars>>

\* Something else writes or removes the item under SAVE_KEY.
ExternalWrite(item) ==
  /\ storage' = item
  /\ storage' # storage
  /\ last' = Op("externalWrite")
  /\ UNCHANGED <<state, intervals, interval, now, mounted, supplied, editorVars,
                 autoSave>>

(***************************************************************************)
(* The editor (src/src/app/editor/types.ts, EditorContent): the pages of   *)
(* the quiz, the page shown, preview mode and the summary, under the same  *)
(* provider.  A page's elements are kept as a set: the editor filters and  *)
(* counts them and never reads their order.  `elements`, the editor's copy *)
(* of the current page's elements, is a state of its own: the canvas, undo *)
(* and redo set it without setting pages, and an effect copies the page's  *)
(* elements into it after every render in which the two differ.  Indices   *)
(* count from 0 as in the source; pages, a sequence, is read at            *)
(* currentPageIndex + 1.                                                   *)
(***************************************************************************)
MaxPages == 2        \* pages of a quiz
MaxEdits == 3        \* snapshots of the undo history after the first

Option(id, isCorrect) == [id |-> id, isCorrect |-> isCorrect]
Element(id, type, options) == [id |-> id, type |-> type, options |-> options]
Page(n, content) == [id |-> n, elements |-> content]

\* The elements of the model: two multiple-choice questions, each with a
\* correct and an incorrect option, and a text.
Question1 == Element("e1", "multiple-choice", {Option(1, TRUE), Option(2, FALSE)})
Question2 == Element("e2", "multiple-choice", {Option(1, TRUE), Option(2, FALSE)})
Text1 == Element("t1", "text", {})

\* what the author drops on a page
Palette == {Question1, Text1}

isQuizElement(type) ==
  type \in {"multiple-choice", "crossword", "grid-puzzle", "map-quiz", "jigsaw"}

QuizElementsOf(page) == {element \in page.elements : isQuizElement(element.type)}

\* pages.reduce((total, page) => total + <quiz elements of page>.length, 0)
RECURSIVE TotalQuizElements(_)
TotalQuizElements(pgs) ==
  IF pgs = <<>> THEN 0
  ELSE Cardinality(QuizElementsOf(Head(pgs))) + TotalQuizElements(Tail(pgs))

\* The callbacks given to setTimeout.  An auto-advance callback calls the
\* handlePageChange of the render that scheduled it, which has closed over
\* that render's currentPageIndex (index) and pages.length (length); a
\* page-change callback sets the page index to index.  Callbacks that are
\* equal set the same state and are kept once.
Timeout(kind, index, length) == [kind |-> kind, index |-> index, length |-> length]

\* handlePageChange refusing to turn to the last page
handlePageChangeStopsEarly(direction, index, length, pending, transitioning) ==
  LET newIndex == IF direction = "prev" THEN index - 1 ELSE index + 1
  IN IF newIndex >= 0 /\ newIndex < length - 1
     THEN [timeouts |-> pending \cup {Timeout("pageChange", newIndex, 0)},
           isPageTransitioning |-> TRUE]
     ELSE [timeouts |-> pending, isPageTransitioning |-> transitioning]

\* handlePageChange(direction) as closed over index and length: what it
\* leaves pending and in isPageTransitioning.
handlePageChange(direction, index, length, pending, transitioning) ==
  LET newIndex == IF direction = "prev" THEN index - 1 ELSE index + 1
  IN IF newIndex >= 0 /\ newIndex < length
     THEN [timeouts |-> pending \cup {Timeout("pageChange", newIndex, 0)},
           isPageTransitioning |-> TRUE]
     ELSE [timeouts |-> pending, isPageTransitioning |-> transitioning]

\* `${element.id}-copy-${Date.now()}`
CopyId(id, t) == id \o "-copy-" \o ToString(t)

\* handleDuplicatePage showing the page after the copy
handleDuplicatePageSkipsCopy(pgs, index, t) ==
  IF index + 1 \notin DOMAIN pgs
  THEN [pages |-> pgs, currentPageIndex |-> index]
  ELSE LET newPage ==
             Page(Len(pgs) + 1,
                  {[element EXCEPT !.id = CopyId(@, t)] :
                     element \in pgs[index + 1].elements})
       IN [pages |-> SubSeq(pgs, 1, index + 1) \o <<newPage>>
                       \o SubSeq(pgs, index + 2, Len(pgs)),
           currentPageIndex |-> index + 2]

\* handleDuplicatePage() at time t, as rendered with pgs and index: the
\* pages and the page index it sets.
handleDuplicatePage(pgs, index, t) ==
  IF index + 1 \notin DOMAIN pgs
  THEN [pages |-> pgs, currentPageIndex |-> index]
  ELSE LET newPage ==
             Page(Len(pgs) + 1,
                  {[element EXCEPT !.id = CopyId(@, t)] :
                     element \in pgs[index + 1].elements})
       IN [pages |-> SubSeq(pgs, 1, index + 1) \o <<newPage>>
                       \o SubSeq(pgs, index + 2, Len(pgs)),
           currentPageIndex |-> index + 1]

\* The auto-progress effect treating a page without quiz elements as done
AutoProgressEffectAllowsEmpty(preview, pgs, index, progress) ==
  IF ~preview THEN "none"
  ELSE IF index + 1 \notin DOMAIN pgs THEN "none"
  ELSE LET quizElements == QuizElementsOf(pgs[index + 1])
           completedElements ==
             {element \in quizElements :
                element.id \in DOMAIN progress /\ progress[element.id].completed}
       IN IF Cardinality(completedElements) = Cardinality(quizElements)
          THEN IF index < Len(pgs) - 1 THEN "advance" ELSE "end"
          ELSE "none"

\* The auto-progress effect doing nothing on the last page
AutoProgressEffectNeverEnds(preview, pgs, index, progress) ==
  IF ~preview THEN "none"
  ELSE IF index + 1 \notin DOMAIN pgs THEN "none"
  ELSE LET quizElements == QuizElementsOf(pgs[index + 1])
           completedElements ==
             {element \in quizElements :
                element.id \in DOMAIN progress /\ progress[element.id].completed}
       IN IF Cardinality(quizElements) > 0
             /\ Cardinality(completedElements) = Cardinality(quizElements)
             /\ index < Len(pgs) - 1
          THEN "advance"
          ELSE "none"

\* The auto-progress effect: what it does for the rendered values,
\* "advance": setTimeout(() => handlePageChange('next'), 1000);
\* "end": endQuiz() and setShowSummary(true); "none": nothing.
AutoProgressEffect(preview, pgs, index, progress) ==
  IF ~preview THEN "none"
  ELSE IF index + 1 \notin DOMAIN pgs THEN "none"
  ELSE LET quizElements == QuizElementsOf(pgs[index + 1])
           completedElements ==
             {element \in quizElements :
                element.id \in DOMAIN progress /\ progress[element.id].completed}
       IN IF Cardinality(quizElements) > 0
             /\ Cardinality(completedElements) = Cardinality(quizElements)
          THEN IF index < Len(pgs) - 1 THEN "advance" ELSE "end"
          ELSE "none"

\* The effect on [currentPageIndex, pages, elements], for the elements the
\* render shows: setElements(currentPage.elements) unless their JSON texts
\* are the same.  The render it asks for runs it again and finds them the
\* same.
SyncEffect(shown, pgs, index) ==
  IF index + 1 \notin DOMAIN pgs THEN shown
  ELSE IF pgs[index + 1].elements = shown THEN shown
  ELSE pgs[index + 1].elements

\* The render that follows a handler and the effects it runs.  The handler
\* leaves shown in the editor's elements, next in the store (freshDate, progressChanged: it put a new Date
\* in a dependency of the timer effect, a new progress object in the
\* state) and the other arguments in the editor.  The editor's effects run
\* before the provider's: the auto-progress effect when one of its
\* dependencies changed, the total-elements effect when pages changed, then
\* the timer effect; an endQuiz() called by the auto-progress effect is
\* rendered next and runs the timer effect again.
RenderShown(next, freshDate, progressChanged, preview, summary, pgs, index, transitioning, pending, queued, shown) ==
  LET depsChanged ==
        \/ progressChanged
        \/ preview # isPreviewMode
        \/ index # currentPageIndex
        \/ pgs # pages
      outcome ==
        IF depsChanged THEN AutoProgressEffect(preview, pgs, index, next.progress)
        ELSE "none"
      first ==
        IF freshDate \/ TimerDeps(next) # TimerDeps(state)
        THEN TimerEffect(intervals, interval, next)
        ELSE [live |-> intervals, held |-> interval]
      ended == endQuiz(next, DateAt(now))
      second ==
        IF outcome = "end" THEN TimerEffect(first.live, first.held, ended)
        ELSE first
  IN /\ state' = (IF outcome = "end" THEN ended ELSE next)
     /\ autoSave' = AutoSaveEffect(autoSave, preview,
                                   \/ preview # isPreviewMode
                                   \/ freshDate
                                   \/ outcome = "end"
                                   \/ next # state,
                                   IF outcome = "end" THEN ended ELSE next)
     /\ intervals' = second.live
     /\ interval' = second.held
     /\ isPreviewMode' = preview
     /\ showSummary' = (summary \/ outcome = "end")
     /\ pages' = pgs
     /\ currentPageIndex' = index
     /\ isPageTransitioning' = transitioning
     /\ timeouts' = (IF outcome = "advance"
                     THEN pending \cup {Timeout("autoAdvance", index, Len(pgs))}
                     ELSE pending)
     /\ frames' = (IF pgs # pages THEN Append(queued, TotalQuizElements(pgs))
                   ELSE queued)
     /\ elements' = SyncEffect(shown, pgs, index)
     /\ piecesState' = piecesState

\* the render that follows a handler that has not called setElements
Render(next, freshDate, progressChanged, preview, summary, pgs, index, transitioning, pending, queued) ==
  RenderShown(next, freshDate, progressChanged, preview, summary, pgs, index,
              transitioning, pending, queued, elements)

(***************************************************************************)
(* The multiple-choice question                                            *)
(* (src/src/app/editor/components/quiz/MultipleChoice.tsx).  A number of   *)
(* calculateScore is a ratio of integers, -Infinity (a negative number     *)
(* divided by 0) or NaN (0 / 0).  Math.round of a ratio is computed        *)
(* exactly; the double the source computes rounds the same way for every   *)
(* ratio with fewer than 17 options wrong, the first that differs being    *)
(* 23 / 40.                                                                *)
(***************************************************************************)
Ratio(n, d) == [kind |-> "ratio", n |-> n, d |-> d]

\* a / b
Divide(a, b) ==
  IF b # 0 THEN Ratio(a, b)
  ELSE IF a = 0 THEN [kind |-> "NaN", n |-> 0, d |-> 1]
  ELSE IF a < 0 THEN [kind |-> "-Infinity", n |-> 0, d |-> 1]
  ELSE [kind |-> "Infinity", n |-> 0, d |-> 1]

\* v * k, for k > 0
Times(v, k) == IF v.kind = "ratio" THEN Ratio(v.n * k, v.d) ELSE v

\* Math.max(0, v), the denominator of a ratio being positive
MathMax0(v) ==
  IF v.kind = "-Infinity" THEN Ratio(0, 1)
  ELSE IF v.kind = "ratio" /\ v.n < 0 THEN Ratio(0, 1)
  ELSE v

\* Math.round(v): the nearest integer, a half rounding up; NaN and Infinity
\* round to themselves
MathRound(v) ==
  IF v.kind = "ratio" THEN (2 * v.n + v.d) \div (2 * v.d) ELSE v.kind

\* calculateScore counting a missed correct option twice
calculateScoreOfSelectedCorrect(options, selectedOptions) ==
  LET correctOptions == {opt.id : opt \in {o \in options : o.isCorrect}}
      incorrectSelections == {id \in selectedOptions : id \notin correctOptions}
      missedCorrect == {id \in correctOptions : id \notin selectedOptions}
      totalCorrect == Cardinality(correctOptions)
      score == Cardinality(selectedOptions \cap correctOptions)
                 - (Cardinality(incorrectSelections) + Cardinality(missedCorrect))
      percentage == MathMax0(Times(Divide(score, totalCorrect), 100))
  IN [score |-> MathRound(percentage), message |-> <<score, totalCorrect>>]

\* The message is kept as the two numbers its text is made of.
calculateScore(options, selectedOptions) ==
  LET correctOptions == {opt.id : opt \in {o \in options : o.isCorrect}}
      incorrectSelections == {id \in selectedOptions : id \notin correctOptions}
      missedCorrect == {id \in correctOptions : id \notin selectedOptions}
      totalCorrect == Cardinality(correctOptions)
      score == totalCorrect
                 - (Cardinality(incorrectSelections) + Cardinality(missedCorrect))
      percentage == MathMax0(Times(Divide(score, totalCorrect), 100))
  IN [score |-> MathRound(percentage), message |-> <<score, totalCorrect>>]

\* The store after handleCheck's three calls, which React applies in order
\* in one render: updateScore, updateProgress, setFeedback.
handleCheck(prev, id, options, selectedOptions, date) ==
  LET r == calculateScore(options, selectedOptions)
  IN setFeedback(
       updateProgress(updateScore(prev, id, r.score, 100, date), id, r.score = 100),
       id, r.score = 100, r.message)

(***************************************************************************)
(* The grid puzzle (src/src/app/editor/components/quiz/GridPuzzle.tsx).    *)
(* The toolbar and the preset create it with rows: 3, columns: 3, nine     *)
(* cells with isRevealed: false, and revealStyle: 'click'.  Of its cells   *)
(* the element keeps those that are revealed.  The component does not use  *)
(* the store: it has no useQuizState().                                    *)
(***************************************************************************)
GridRows == 3
GridColumns == 3
GridCells == 1..(GridRows * GridColumns)

Grid(id, revealed) ==
  [id |-> id, type |-> "grid-puzzle", options |-> {}, revealed |-> revealed]

Grid1 == Grid("g1", {})

\* cells.map(cell => cell.id === cellId ? { ...cell, isRevealed: true } : cell),
\* the newCells the handler gives to onChange
handleCellUpdate(revealed, cellId) == revealed \cup {cellId}

(***************************************************************************)
(* The crossword (src/src/app/editor/components/quiz/Crossword.tsx).  Its  *)
(* cells are kept by position, each with its letter and its isCorrect      *)
(* mark ("undefined" until a validation sets it); letters are upper case   *)
(* and "" is the empty input.  Its clues are a sequence, each with the     *)
(* letters of its answer.  The component does not use the store either.    *)
(***************************************************************************)
CrosswordCell(letter) == [letter |-> letter, isCorrect |-> "undefined"]

CrosswordClue(direction, answer, row, col) ==
  [direction |-> direction, answer |-> answer,
   startCell |-> [row |-> row, col |-> col], isValidated |-> FALSE]

Crossword(id, cells, clues) ==
  [id |-> id, type |-> "crossword", options |-> {}, cells |-> cells, clues |-> clues]

\* the position of the letter at `index` (from 0) of a clue's answer
LetterPosition(clue, index) ==
  IF clue.direction = "across"
  THEN <<clue.startCell.row, clue.startCell.col + index>>
  ELSE <<clue.startCell.row + index, clue.startCell.col>>

\* answer.forEach((letter, index) => ...) from the letter at `index` on:
\* the cell found at the letter's position is copied from cells, not from
\* newCells, with isCorrect set to whether its letter is the answer's.
RECURSIVE validateLetters(_, _, _, _)
validateLetters(cells, newCells, clue, index) ==
  IF index >= Len(clue.answer) THEN newCells
  ELSE LET position == LetterPosition(clue, index)
           marked ==
             IF position \in DOMAIN cells
             THEN [newCells EXCEPT ![position] =
                     [cells[position] EXCEPT !.isCorrect =
                        IF cells[position].letter = clue.answer[index + 1]
                        THEN "true" ELSE "false"]]
             ELSE newCells
       IN validateLetters(cells, marked, clue, index + 1)

\* clues.forEach(clue => ...) from the clue at `index` (from 1) on
RECURSIVE validateClues(_, _, _, _)
validateClues(cells, newCells, clues, index) ==
  IF index > Len(clues) THEN newCells
  ELSE validateClues(cells, validateLetters(cells, newCells, clues[index], 0),
                     clues, index + 1)

\* the { cells: newCells, clues: newClues } validateAnswers gives to onChange
validateAnswers(cells, clues) ==
  [cells |-> validateClues(cells, cells, clues, 1),
   clues |-> [i \in DOMAIN clues |-> [clues[i] EXCEPT !.isValidated = TRUE]]]

\* The grid puzzle's rows and columns inputs.  The text of an input is a
\* sequence of characters; what parseInt returns is an integer or NaN.
Parsed(isNaN, value) == [isNaN |-> isNaN, value |-> value]
Digits == <<"0", "1", "2", "3", "4", "5", "6", "7", "8", "9">>
IsDigit(c) == \E d \in DOMAIN Digits : Digits[d] = c
DigitValue(c) == (CHOOSE d \in DOMAIN Digits : Digits[d] = c) - 1

\* the value of the digits text starts with, after the value so far
RECURSIVE LeadingDigits(_, _)
LeadingDigits(text, value) ==
  IF text = <<>> \/ ~IsDigit(Head(text)) THEN value
  ELSE LeadingDigits(Tail(text), 10 * value + DigitValue(Head(text)))

RECURSIVE TrimStart(_)
TrimStart(text) ==
  IF text # <<>> /\ Head(text) = " " THEN TrimStart(Tail(text)) ELSE text

\* parseInt(text): white space, an optional sign, then the digits up to
\* the first character that is not one; NaN when there is no digit
parseInt(text) ==
  LET trimmed == TrimStart(text)
      signed == trimmed # <<>> /\ Head(trimmed) \in {"-", "+"}
      rest == IF signed THEN Tail(trimmed) ELSE trimmed
      value == LeadingDigits(rest, 0)
  IN IF rest = <<>> \/ ~IsDigit(Head(rest)) THEN Parsed(TRUE, 0)
     ELSE IF signed /\ Head(trimmed) = "-" THEN Parsed(FALSE, 0 - value)
     ELSE Parsed(FALSE, value)

\* parseInt(e.target.value) || 1: NaN and 0 are falsy
OrOne(v) == IF v.isNaN \/ v.value = 0 THEN 1 ELSE v.value

\* the cells of the grid puzzle element, as the editor dropped it, of which
\* those of revealed are revealed
Cell(id, isRevealed) == [id |-> id, isRevealed |-> isRevealed]

CellsOf(revealed) ==
  [i \in GridCells |-> Cell("cell-" \o ToString(i - 1) \o "-0", i \in revealed)]

\* handleGridResize(newRows, newColumns) at time t: what it gives to
\* onChange.  The loop over i < totalCells makes no cell when totalCells is
\* not positive.
handleGridResize(cells, newRows, newColumns, t) ==
  LET totalCells == newRows * newColumns
  IN [rows |-> newRows, columns |-> newColumns,
      cells |-> [i \in 1..totalCells |->
                   IF i \in DOMAIN cells THEN cells[i]
                   ELSE Cell("cell-" \o ToString((i - 1) \div newColumns) \o "-"
                               \o ToString((i - 1) % newColumns) \o "-" \o ToString(t),
                             FALSE)]]

(***************************************************************************)
(* The jigsaw puzzle                                                       *)
(* (src/src/app/editor/components/quiz/JigsawPuzzle.tsx).  Its pieces are  *)
(* in piecesState, the component's own useState; what it gives to onChange *)
(* takes the way of the grid puzzle's and does not come back as a prop.    *)
(* The editor drops a jigsaw with allowRotation: true.                     *)
(***************************************************************************)
JigsawRows == 2
JigsawColumns == 2
PieceSize == 100     \* img.width / columns and img.height / rows

Jigsaw(id, allowRotation) ==
  [id |-> id, type |-> "jigsaw", options |-> {}, allowRotation |-> allowRotation]

Jigsaw1 == Jigsaw("j1", TRUE)

\* the piece pushed for index in the loops over y < rows and x < columns
NewPiece(index) ==
  [id |-> index, originalIndex |-> index, currentIndex |-> index,
   isCorrect |-> TRUE, isPlaced |-> TRUE, rotation |-> 0,
   x |-> (index % JigsawColumns) * PieceSize,
   y |-> (index \div JigsawColumns) * PieceSize]

NewPieces == [i \in 1..(JigsawRows * JigsawColumns) |-> NewPiece(i - 1)]

\* shufflePuzzlePieces(inputPieces): the Fisher-Yates shuffle with
\* Math.random() returns any order of the pieces
shufflePuzzlePieces(inputPieces) ==
  { [i \in DOMAIN inputPieces |-> inputPieces[order[i]]] :
      order \in { f \in [DOMAIN inputPieces -> DOMAIN inputPieces] :
                    \A i, j \in DOMAIN inputPieces : i # j => f[i] # f[j] } }

\* handlePieceDrop(pieceId, x, y): the pieces it sets
handlePieceDrop(pcs, pieceId, x, y) ==
  [i \in DOMAIN pcs |->
     IF pcs[i].id = pieceId
     THEN [pcs[i] EXCEPT !.x = x, !.y = y, !.isPlaced = FALSE]
     ELSE pcs[i]]

\* handlePieceRotate recomputing isCorrect
handlePieceRotateRechecks(pcs, pieceId, allowRotation) ==
  IF ~allowRotation THEN pcs
  ELSE [i \in DOMAIN pcs |->
          IF pcs[i].id = pieceId
          THEN [pcs[i] EXCEPT
                  !.rotation = (@ + 90) % 360,
                  !.isPlaced = FALSE,
                  !.isCorrect = /\ pcs[i].currentIndex = pcs[i].originalIndex
                                /\ (pcs[i].rotation + 90) % 360 = 0]
          ELSE pcs[i]]

\* handlePieceRotate(pieceId): the pieces it sets
handlePieceRotate(pcs, pieceId, allowRotation) ==
  IF ~allowRotation THEN pcs
  ELSE [i \in DOMAIN pcs |->
          IF pcs[i].id = pieceId
          THEN [pcs[i] EXCEPT !.rotation = (@ + 90) % 360, !.isPlaced = FALSE]
          ELSE pcs[i]]

\* shufflePieces(): the pieces it may set
shufflePieces(pcs) ==
  { [i \in DOMAIN shuffled |->
       [shuffled[i] EXCEPT
          !.isCorrect = /\ shuffled[i].currentIndex = shuffled[i].originalIndex
                        /\ shuffled[i].rotation = 0,
          !.isPlaced = FALSE]] :
      shuffled \in shufflePuzzlePieces(pcs) }

\* resetPuzzle(): the pieces it sets
resetPuzzle(pcs) ==
  [i \in DOMAIN pcs |->
     [pcs[i] EXCEPT !.currentIndex = pcs[i].originalIndex, !.rotation = 0,
                    !.isCorrect = TRUE, !.isPlaced = TRUE]]

\* the canvas's onUpdate(id, updates): elements.map(el => el.id === id ?
\* { ...el, ...updates } : el), the newElements it gives to onElementsChange
onUpdate(shown, id, updates) ==
  {IF el.id = id THEN updates @@ el ELSE el : el \in shown}

(***************************************************************************)
(* The editor's handlers and callbacks.  A callback of                     *)
(* requestAnimationFrame runs before the next frame is painted, ahead of   *)
(* the user's next input; a callback of setTimeout runs at any later time. *)
(* After the editor has unmounted its callbacks still run and the setters  *)
(* they call do nothing.                                                   *)
(***************************************************************************)
CurrentPage == pages[currentPageIndex + 1]

OnSomePage(id) ==
  \E i \in DOMAIN pages : \E element \in pages[i].elements : element.id = id

\* addToHistory(newElements) as closed over past and index: the history
\* and the history index it sets.
addToHistory(past, index, newElements) ==
  LET newHistory == Append(SubSeq(past, 1, index + 1), newElements)
  IN [history |-> newHistory, historyIndex |-> Len(newHistory) - 1]

\* the history after the elements of order were dropped one after the
\* other on the first page of a new quiz
RECURSIVE BuiltHistory(_)
BuiltHistory(order) ==
  IF order = <<>> THEN <<{}>>
  ELSE LET past == BuiltHistory(SubSeq(order, 1, Len(order) - 1))
       IN Append(past, past[Len(past)] \cup {order[Len(order)]})

\* updatePageElements(newElements) as closed over index: the pages it sets
updatePageElements(pgs, index, newElements) ==
  [i \in DOMAIN pgs |->
     IF i = index + 1 THEN [pgs[i] EXCEPT !.elements = newElements] ELSE pgs[i]]

\* dropping an element of the toolbar on the canvas; the toolbar is
\* rendered while authoring
HandleElementAdd(element) ==
  /\ mounted
  /\ frames = <<>>
  /\ ~isPreviewMode
  /\ ~OnSomePage(element.id)
  /\ historyIndex < MaxEdits
  /\ LET newElements == elements \cup {element}
         r == addToHistory(history, historyIndex, newElements)
     IN /\ Render(state, FALSE, FALSE, isPreviewMode, showSummary,
                  updatePageElements(pages, currentPageIndex, newElements),
                  currentPageIndex, isPageTransitioning, timeouts, frames)
        /\ history' = r.history
        /\ historyIndex' = r.historyIndex
  /\ last' = [Op("handleElementAdd") EXCEPT !.elementId = element.id]
  /\ UNCHANGED <<storage, now, mounted, supplied>>

\* undo() as closed over past, index and shown: the history index and the
\* elements it sets; an array, empty or not, is truthy
undo(past, index, shown) ==
  IF index > 0
  THEN [historyIndex |-> index - 1,
        elements |-> IF index \in DOMAIN past THEN past[index] ELSE shown]
  ELSE [historyIndex |-> index, elements |-> shown]

\* redo() as closed over past, index and shown
redo(past, index, shown) ==
  IF index < Len(past) - 1
  THEN [historyIndex |-> index + 1,
        elements |-> IF index + 2 \in DOMAIN past THEN past[index + 2] ELSE shown]
  ELSE [historyIndex |-> index, elements |-> shown]

\* the Delete key with element id selected, while authoring
HandleElementDelete(id) ==
  /\ mounted
  /\ frames = <<>>
  /\ ~isPreviewMode
  /\ \E element \in elements : element.id = id
  /\ historyIndex < MaxEdits
  /\ LET newElements == {element \in elements : element.id # id}
         r == addToHistory(history, historyIndex, newElements)
     IN /\ Render(state, FALSE, FALSE, isPreviewMode, showSummary,
                  updatePageElements(pages, currentPageIndex, newElements),
                  currentPageIndex, isPageTransitioning, timeouts, frames)
        /\ history' = r.history
        /\ historyIndex' = r.historyIndex
  /\ last' = [Op("handleElementDelete") EXCEPT !.elementId = id]
  /\ UNCHANGED <<storage, now, mounted, supplied>>

\* the Undo button of the action bar, disabled when historyIndex <= 0
Undo ==
  /\ mounted
  /\ frames = <<>>
  /\ ~(historyIndex <= 0)
  /\ LET r == undo(history, historyIndex, elements)
     IN /\ RenderShown(state, FALSE, FALSE, isPreviewMode, showSummary, pages,
                       currentPageIndex, isPageTransitioning, timeouts, frames,
                       r.elements)
        /\ historyIndex' = r.historyIndex
  /\ last' = Op("undo")
  /\ UNCHANGED <<storage, now, mounted, supplied, history>>

\* the Redo button, disabled when historyIndex >= history.length - 1
Redo ==
  /\ mounted
  /\ frames = <<>>
  /\ ~(historyIndex >= Len(history) - 1)
  /\ LET r == redo(history, historyIndex, elements)
     IN /\ RenderShown(state, FALSE, FALSE, isPreviewMode, showSummary, pages,
                       currentPageIndex, isPageTransitioning, timeouts, frames,
                       r.elements)
        /\ historyIndex' = r.historyIndex
  /\ last' = Op("redo")
  /\ UNCHANGED <<storage, now, mounted, supplied, history>>

\* the button is rendered while authoring
HandleAddPage ==
  /\ mounted
  /\ frames = <<>>
  /\ ~isPreviewMode
  /\ Len(pages) < MaxPages
  /\ Render(state, FALSE, FALSE, isPreviewMode, showSummary,
            Append(pages, Page(Len(pages) + 1, {})),
            Len(pages), isPageTransitioning, timeouts, frames)
  /\ last' = Op("handleAddPage")
  /\ UNCHANGED <<storage, now, mounted, supplied, history, historyIndex>>

\* the button is rendered while authoring; t is what Date.now() reads, in
\* milliseconds, and no two clicks fall in the same one
HandleDuplicatePage(t) ==
  /\ mounted
  /\ frames = <<>>
  /\ ~isPreviewMode
  /\ Len(pages) < MaxPages
  /\ \A element \in CurrentPage.elements : ~OnSomePage(CopyId(element.id, t))
  /\ LET r == handleDuplicatePage(pages, currentPageIndex, t)
     IN Render(state, FALSE, FALSE, isPreviewMode, showSummary, r.pages,
               r.currentPageIndex, isPageTransitioning, timeouts, frames)
  /\ last' = Op("handleDuplicatePage")
  /\ UNCHANGED <<storage, now, mounted, supplied, history, historyIndex>>

\* the previous-page and next-page buttons
HandlePageChange(direction) ==
  /\ mounted
  /\ frames = <<>>
  /\ LET r == handlePageChange(direction, currentPageIndex, Len(pages),
                               timeouts, isPageTransitioning)
     IN /\ r.timeouts # timeouts \/ r.isPageTransitioning # isPageTransitioning
        /\ Render(state, FALSE, FALSE, isPreviewMode, showSummary, pages,
                  currentPageIndex, r.isPageTransitioning, r.timeouts, frames)
  /\ last' = Op("handlePageChange")
  /\ UNCHANGED <<storage, now, mounted, supplied, history, historyIndex>>

\* the toggle ending the quiz without showing the summary
HandlePreviewToggleHidesSummary ==
  /\ mounted
  /\ frames = <<>>
  /\ Render(IF isPreviewMode THEN endQuiz(state, DateAt(now))
            ELSE startQuiz(state, DateAt(now)),
            TRUE, FALSE, ~isPreviewMode, showSummary, pages,
            currentPageIndex, isPageTransitioning, timeouts, frames)
  /\ last' = [Op("handlePreviewToggle") EXCEPT !.flag = ~isPreviewMode]
  /\ UNCHANGED <<storage, now, mounted, supplied, history, historyIndex>>

\* the Start Quiz / End Quiz button
HandlePreviewToggle ==
  /\ mounted
  /\ frames = <<>>
  /\ Render(IF isPreviewMode THEN endQuiz(state, DateAt(now))
            ELSE startQuiz(state, DateAt(now)),
            TRUE, FALSE, ~isPreviewMode, showSummary \/ isPreviewMode, pages,
            currentPageIndex, isPageTransitioning, timeouts, frames)
  /\ last' = [Op("handlePreviewToggle") EXCEPT !.flag = ~isPreviewMode]
  /\ UNCHANGED <<storage, now, mounted, supplied, history, historyIndex>>

\* the summary's Restart button
HandleQuizRestart ==
  /\ mounted
  /\ frames = <<>>
  /\ showSummary
  /\ Render(startQuiz(resetQuiz(state), DateAt(now)), TRUE, TRUE,
            isPreviewMode, FALSE, pages, currentPageIndex,
            isPageTransitioning, timeouts, frames)
  /\ last' = [Op("handleQuizRestart") EXCEPT !.flag = isPreviewMode]
  /\ UNCHANGED <<storage, now, mounted, supplied, history, historyIndex>>

\* the summary's Close button: onClose={() => setShowSummary(false)}
CloseSummary ==
  /\ mounted
  /\ frames = <<>>
  /\ showSummary
  /\ Render(state, FALSE, FALSE, isPreviewMode, FALSE, pages,
            currentPageIndex, isPageTransitioning, timeouts, frames)
  /\ last' = Op("closeSummary")
  /\ UNCHANGED <<storage, now, mounted, supplied, history, historyIndex>>

\* Check Answer on the multiple-choice question id of the page shown, the
\* user having selected selectedOptions.
HandleCheck(id, selectedOptions) ==
  /\ mounted
  /\ frames = <<>>
  /\ isPreviewMode
  /\ selectedOptions # {}
  /\ Attempts(id) < MaxAttempts
  /\ \E element \in CurrentPage.elements :
       /\ element.id = id
       /\ element.type = "multiple-choice"
       /\ Render(handleCheck(state, id, element.options, selectedOptions, DateAt(now)),
                 FALSE, TRUE, isPreviewMode, showSummary, pages,
                 currentPageIndex, isPageTransitioning, timeouts, frames)
       /\ last' = [Op("handleCheck") EXCEPT
                     !.elementId = id,
                     !.score = calculateScore(element.options, selectedOptions).score,
                     !.total = 100,
                     !.selected = selectedOptions]
  /\ supplied' = Put(supplied, id, 100)
  /\ UNCHANGED <<storage, now, mounted, history, historyIndex>>

\* the callback of the auto-progress effect's setTimeout
AutoAdvanceFires(t) ==
  /\ t \in timeouts
  /\ t.kind = "autoAdvance"
  /\ LET r == handlePageChange("next", t.index, t.length, timeouts \ {t},
                               isPageTransitioning)
     IN IF mounted
        THEN Render(state, FALSE, FALSE, isPreviewMode, showSummary, pages,
                    currentPageIndex, r.isPageTransitioning, r.timeouts, frames)
        ELSE /\ timeouts' = r.timeouts
             /\ UNCHANGED <<state, intervals, interval, isPreviewMode, showSummary,
                            pages, currentPageIndex, isPageTransitioning, frames,
                            autoSave, elements, history, historyIndex, piecesState>>
  /\ last' = [Op("autoAdvance") EXCEPT !.flag = (t.index # currentPageIndex)]
  /\ UNCHANGED <<storage, now, mounted, supplied, history, historyIndex>>

\* the callback of handlePageChange's setTimeout
PageChangeFires(t) ==
  /\ t \in timeouts
  /\ t.kind = "pageChange"
  /\ IF mounted
     THEN Render(state, FALSE, FALSE, isPreviewMode, showSummary, pages,
                 t.index, FALSE, timeouts \ {t}, frames)
     ELSE /\ timeouts' = timeouts \ {t}
          /\ UNCHANGED <<state, intervals, interval, isPreviewMode, showSummary,
                         pages, currentPageIndex, isPageTransitioning, frames,
                         autoSave, elements, history, historyIndex, piecesState>>
  /\ last' = Op("pageChange")
  /\ UNCHANGED <<storage, now, mounted, supplied, history, historyIndex>>

\* the callback of the total-elements effect's requestAnimationFrame
AnimationFrame ==
  /\ frames # <<>>
  /\ IF mounted
     THEN Render(setTotalElements(state, Head(frames)), FALSE, FALSE,
                 isPreviewMode, showSummary, pages, currentPageIndex,
                 isPageTransitioning, timeouts, Tail(frames))
     ELSE /\ frames' = Tail(frames)
          /\ UNCHANGED <<state, intervals, interval, isPreviewMode, showSummary,
                         pages, currentPageIndex, isPageTransitioning, timeouts,
                         autoSave, elements, history, historyIndex, piecesState>>
  /\ last' = Op("animationFrame")
  /\ UNCHANGED <<storage, now, mounted, supplied, history, historyIndex>>

\* A click on cell cellId of the grid puzzle id of the page shown: in
\* preview mode, with revealStyle 'click', it calls handleCellUpdate.  The
\* onChange of the widget reaches the canvas's onUpdate, which gives the new
\* elements to setElements alone (onElementsChange={setElements}); in the
\* render that follows, the editor's effect on [currentPageIndex, pages,
\* elements] finds them different from the page's and sets the page's
\* elements again.  pages is not set, and the store is not called.
HandleCellUpdate(id, cellId) ==
  /\ mounted
  /\ frames = <<>>
  /\ isPreviewMode
  /\ \E element \in CurrentPage.elements :
       /\ element.id = id
       /\ element.type = "grid-puzzle"
       /\ last' = [Op("handleCellUpdate") EXCEPT
                     !.elementId = id,
                     !.revealed = handleCellUpdate(element.revealed, cellId)]
       /\ RenderShown(state, FALSE, FALSE, isPreviewMode, showSummary, pages,
                      currentPageIndex, isPageTransitioning, timeouts, frames,
                      onUpdate(elements, id,
                               [revealed |-> handleCellUpdate(element.revealed, cellId)]))
  /\ UNCHANGED <<storage, now, mounted, supplied, history, historyIndex>>

\* The Validate Answers button of the crossword id of the page shown; it is
\* rendered when !isPreviewMode.  Its onChange takes the same way as the
\* grid puzzle's.
ValidateAnswers(id) ==
  /\ mounted
  /\ frames = <<>>
  /\ ~isPreviewMode
  /\ \E element \in CurrentPage.elements :
       /\ element.id = id
       /\ element.type = "crossword"
       /\ last' = [Op("validateAnswers") EXCEPT
                     !.elementId = id,
                     !.validated = validateAnswers(element.cells, element.clues).cells]
       /\ RenderShown(state, FALSE, FALSE, isPreviewMode, showSummary, pages,
                      currentPageIndex, isPageTransitioning, timeouts, frames,
                      onUpdate(elements, id,
                               validateAnswers(element.cells, element.clues)))
  /\ UNCHANGED <<storage, now, mounted, supplied, history, historyIndex>>

\* Typing text in the rows input (field "rows") or the columns input of the
\* grid puzzle id of the page shown; the inputs are rendered when
\* !isPreviewMode.  The onChange of the widget takes the way of
\* handleCellUpdate's.
HandleGridResize(id, field, text) ==
  /\ mounted
  /\ frames = <<>>
  /\ ~isPreviewMode
  /\ \E element \in CurrentPage.elements :
       /\ element.id = id
       /\ element.type = "grid-puzzle"
       /\ last' = [Op("handleGridResize") EXCEPT
                     !.elementId = id,
                     !.resized =
                        IF field = "rows"
                        THEN handleGridResize(CellsOf(element.revealed),
                                              OrOne(parseInt(text)), GridColumns, now)
                        ELSE handleGridResize(CellsOf(element.revealed),
                                              GridRows, OrOne(parseInt(text)), now)]
  /\ RenderShown(state, FALSE, FALSE, isPreviewMode, showSummary, pages,
                 currentPageIndex, isPageTransitioning, timeouts, frames,
                 onUpdate(elements, id, last'.resized))
  /\ UNCHANGED <<storage, now, mounted, supplied, history, historyIndex>>

\* The page is loaded anew: the pending callbacks are gone with the old
\* document, the provider and the editor are constructed, and the editor's
\* effect on mount calls loadQuizState(); the total-elements effect asks
\* for a frame, the timer effect runs on the state that was loaded.
Reload ==
  /\ mounted
  /\ LET r == loadQuizState(ZeroState, storage)
         timer == TimerEffect({}, NoHandle, r.state)
     IN /\ state' = r.state
        /\ intervals' = timer.live
        /\ interval' = timer.held
        /\ last' = [Op("reload") EXCEPT !.outcome = r.outcome]
  /\ isPreviewMode' = FALSE
  /\ showSummary' = FALSE
  /\ pages' = <<Page(1, {})>>
  /\ currentPageIndex' = 0
  /\ isPageTransitioning' = FALSE
  /\ timeouts' = {}
  /\ frames' = <<TotalQuizElements(<<Page(1, {})>>)>>
  /\ autoSave' = NoTimer
  /\ elements' = {}
  /\ history' = <<{}>>
  /\ historyIndex' = 0
  /\ piecesState' = <<>>
  /\ UNCHANGED <<storage, now, mounted, supplied>>

\* A handler of the jigsaw puzzle id of the page shown leaving newPieces in
\* piecesState.  Its onChange reaches setElements alone, and the effect on
\* [currentPageIndex, pages, elements] sets the page's elements again.
JigsawSets(id, newPieces, name) ==
  /\ mounted
  /\ frames = <<>>
  /\ \E element \in CurrentPage.elements : element.id = id /\ element.type = "jigsaw"
  /\ piecesState' = newPieces
  /\ last' = [Op(name) EXCEPT !.elementId = id]
  /\ UNCHANGED <<state, intervals, interval, storage, now, supplied, mounted,
                 isPreviewMode, showSummary, pages, currentPageIndex,
                 isPageTransitioning, timeouts, frames, autoSave, elements,
                 history, historyIndex>>

\* the image of the puzzle has loaded (img.onload): the pieces are cut and
\* shuffled
InitializePuzzle(id) ==
  /\ mounted
  /\ \E shuffledPieces \in shufflePuzzlePieces(NewPieces) :
       JigsawSets(id, shuffledPieces, "initializePuzzle")

\* a drop on piece pieceId at (x, y)
HandlePieceDrop(id, pieceId, x, y) ==
  /\ \E i \in DOMAIN piecesState : piecesState[i].id = pieceId
  /\ JigsawSets(id, handlePieceDrop(piecesState, pieceId, x, y), "handlePieceDrop")

\* a click on piece pieceId
HandlePieceRotate(id, pieceId) ==
  /\ \E i \in DOMAIN piecesState : piecesState[i].id = pieceId
  /\ \E element \in CurrentPage.elements :
       /\ element.id = id
       /\ element.type = "jigsaw"
       /\ element.allowRotation
       /\ JigsawSets(id, handlePieceRotate(piecesState, pieceId, element.allowRotation),
                     "handlePieceRotate")

\* the shuffle button, rendered when !isPreviewMode
ShufflePieces(id) ==
  /\ ~isPreviewMode
  /\ \E updatedPieces \in shufflePieces(piecesState) :
       JigsawSets(id, updatedPieces, "shufflePieces")

\* the reset button, rendered when !isPreviewMode
ResetPuzzle(id) ==
  /\ ~isPreviewMode
  /\ JigsawSets(id, resetPuzzle(piecesState), "resetPuzzle")

Init ==
  /\ state = ZeroState
  /\ intervals = {}
  /\ interval = NoHandle
  /\ storage = NullItem
  /\ now = 0
  /\ mounted = TRUE
  /\ last = Op("mount")
  /\ supplied = EmptyMap
  /\ isPreviewMode = FALSE
  /\ showSummary = FALSE
  /\ pages = <<Page(1, {})>>
  /\ currentPageIndex = 0
  /\ isPageTransitioning = FALSE
  /\ timeouts = {}
  /\ frames = <<>>
  /\ autoSave = NoTimer
  /\ elements = pages[1].elements
  /\ history = <<{}>>
  /\ historyIndex = 0
  /\ piecesState = <<>>

(***************************************************************************)
(* Spec: a session in memory, every callback of the store but the two      *)
(* that touch local storage, on one element.                               *)
(***************************************************************************)
StoreElementIds == {"e1"}
StoreScores == {100}
StoreTotals == {100}

Next ==
  \/ \E e \in StoreElementIds, s \in StoreScores, t \in StoreTotals : UpdateScore(e, s, t)
  \/ \E e \in StoreElementIds, c \in BOOLEAN : UpdateProgress(e, c)
  \/ \E e \in StoreElementIds, c \in BOOLEAN, m \in Messages : SetFeedback(e, c, m)
  \/ StartQuiz
  \/ PauseQuiz
  \/ ResumeQuiz
  \/ EndQuiz
  \/ ResetQuiz
  \/ \E n \in 0..MaxElements : SetTotalElements(n)
  \/ Tick
  \/ Unmount
  \/ Mount

Spec == Init /\ [][Next]_vars

(***************************************************************************)
(* SpecScore: sequences of updateScore and updateProgress calls from the   *)
(* zero state.                                                             *)
(***************************************************************************)
NextScore ==
  \/ \E e \in ElementIds, s \in Scores, t \in Totals : UpdateScore(e, s, t)
  \/ \E e \in ElementIds, c \in BOOLEAN : UpdateProgress(e, c)

SpecScore == Init /\ [][NextScore]_vars

(***************************************************************************)
(* SpecTimer: the timer of a session: start, pause, resume, end, reset,    *)
(* the passing seconds, and the provider unmounting and mounting.          *)
(***************************************************************************)
NextTimer ==
  \/ StartQuiz
  \/ PauseQuiz
  \/ ResumeQuiz
  \/ EndQuiz
  \/ ResetQuiz
  \/ Tick
  \/ Unmount
  \/ Mount

SpecTimer == Init /\ [][NextTimer]_vars

(***************************************************************************)
(* SpecPersist: a session that is played, saved and loaded, with whatever  *)
(* else may be found under the key.                                        *)
(***************************************************************************)
NextPersist ==
  \/ \E e \in StoreElementIds, c \in BOOLEAN : UpdateProgress(e, c)
  \/ StartQuiz
  \/ EndQuiz
  \/ Tick
  \/ SaveQuizState
  \/ LoadQuizState
  \/ \E item \in ForeignItems : ExternalWrite(item)

SpecPersist == Init /\ [][NextPersist]_vars

(***************************************************************************)
(* SpecEditor: the editor from its mount with nothing saved: the author    *)
(* builds the pages, the quiz is started, answered, paused, ended and      *)
(* restarted, the pages are turned, and the scheduled callbacks run, all   *)
(* within one second of wall-clock time.                                   *)
(***************************************************************************)
Selections(element) == SUBSET {opt.id : opt \in element.options} \ {{}}

NextEditor ==
  \/ \E element \in Palette : HandleElementAdd(element)
  \/ HandleAddPage
  \/ \E direction \in {"prev", "next"} : HandlePageChange(direction)
  \/ HandlePreviewToggle
  \/ HandleQuizRestart
  \/ CloseSummary
  \/ \E element \in Palette : \E selectedOptions \in Selections(element) :
       HandleCheck(element.id, selectedOptions)
  \/ \E t \in timeouts : AutoAdvanceFires(t)
  \/ \E t \in timeouts : PageChangeFires(t)
  \/ AnimationFrame
  \/ isPreviewMode /\ frames = <<>> /\ PauseQuiz
  \/ isPreviewMode /\ frames = <<>> /\ ResumeQuiz
  \/ Unmount

SpecEditor == Init /\ [][NextEditor]_vars

(***************************************************************************)
(* SpecAdvance: the quiz built, played, ended and restarted, the pages     *)
(* turned, under the scheduling of the timers: a callback given to         *)
(* setTimeout is run.                                                      *)
(***************************************************************************)
Timeouts ==
  { Timeout("autoAdvance", i, n) : i \in 0..(MaxPages - 1), n \in 1..MaxPages }
  \cup { Timeout("pageChange", i, 0) : i \in 0..(MaxPages - 1) }

NextAdvance ==
  \/ \E element \in Palette : HandleElementAdd(element)
  \/ HandleAddPage
  \/ \E direction \in {"prev", "next"} : HandlePageChange(direction)
  \/ HandlePreviewToggle
  \/ HandleQuizRestart
  \/ \E element \in Palette : \E selectedOptions \in Selections(element) :
       HandleCheck(element.id, selectedOptions)
  \/ \E t \in timeouts : AutoAdvanceFires(t)
  \/ \E t \in timeouts : PageChangeFires(t)
  \/ AnimationFrame
  \/ Unmount

SpecAdvance ==
  /\ Init
  /\ [][NextAdvance]_vars
  /\ \A t \in Timeouts : WF_vars(AutoAdvanceFires(t))
  /\ \A t \in Timeouts : WF_vars(PageChangeFires(t))

(***************************************************************************)
(* SpecChoice: Check Answer on one multiple-choice question, the only      *)
(* element of a quiz of one page that has just been started, for the       *)
(* questions and the selections within the bounds.  calculateScore tells   *)
(* options apart by isCorrect and by membership in the selection only, so  *)
(* of the questions with the same numbers of correct and incorrect options *)
(* one is taken (options 1..correct are the correct ones), and of the      *)
(* selections with the same numbers of missed correct options and of       *)
(* incorrect options selected one is taken.                                *)
(***************************************************************************)
MaxCorrect == 200    \* correct options of a question
MaxIncorrect == 2    \* incorrect options of a question
MaxMissed == 2       \* correct options a selection leaves out

OptionsOf(correct, incorrect) ==
  { Option(i, i <= correct) : i \in 1..(correct + incorrect) }

\* all correct options but the first `missed`, and the first `wrong`
\* incorrect ones
SelectionOf(correct, missed, wrong) ==
  ((missed + 1)..correct) \cup ((correct + 1)..(correct + wrong))

CorrectOf(element) == {opt.id : opt \in {o \in element.options : o.isCorrect}}

InitChoice ==
  /\ \E correct \in 0..MaxCorrect, incorrect \in 0..MaxIncorrect :
       pages = <<Page(1, {Element("e1", "multiple-choice",
                                  OptionsOf(correct, incorrect))})>>
  /\ state = startQuiz(setTotalElements(ZeroState, 1), DateAt(0))
  /\ intervals = {1}
  /\ interval = 1
  /\ storage = NullItem
  /\ now = 0
  /\ mounted = TRUE
  /\ last = [Op("handlePreviewToggle") EXCEPT !.flag = TRUE]
  /\ supplied = EmptyMap
  /\ isPreviewMode = TRUE
  /\ showSummary = FALSE
  /\ currentPageIndex = 0
  /\ isPageTransitioning = FALSE
  /\ timeouts = {}
  /\ frames = <<>>
  /\ autoSave = 0
  /\ elements = pages[1].elements
  /\ history = <<{}, pages[1].elements>>
  /\ historyIndex = 1
  /\ piecesState = <<>>

NextChoice ==
  \E element \in CurrentPage.elements :
    \E missed \in 0..MaxMissed, wrong \in 0..MaxIncorrect :
      /\ missed <= Cardinality(CorrectOf(element))
      /\ wrong <= Cardinality(element.options) - Cardinality(CorrectOf(element))
      /\ HandleCheck(element.id,
                     SelectionOf(Cardinality(CorrectOf(element)), missed, wrong))

SpecChoice == InitChoice /\ [][NextChoice]_vars

(***************************************************************************)
(* SpecPages: the author adds and duplicates pages, the quiz is started,    *)
(* answered and ended, the pages are turned by hand and                    *)
(* by the auto-progress effect, and the scheduled callbacks run at any     *)
(* later time.                                                             *)
(***************************************************************************)
\* the quiz of one page holding one question, as the author has built it
InitPages ==
  /\ state = setTotalElements(ZeroState, 1)
  /\ intervals = {}
  /\ interval = NoHandle
  /\ storage = NullItem
  /\ now = 0
  /\ mounted = TRUE
  /\ last = Op("animationFrame")
  /\ supplied = EmptyMap
  /\ isPreviewMode = FALSE
  /\ showSummary = FALSE
  /\ pages = <<Page(1, {Question1})>>
  /\ currentPageIndex = 0
  /\ isPageTransitioning = FALSE
  /\ timeouts = {}
  /\ frames = <<>>
  /\ autoSave = NoTimer
  /\ elements = pages[1].elements
  /\ history = BuiltHistory(<<Question1>>)
  /\ historyIndex = 1
  /\ piecesState = <<>>

\* The clicks on the duplicate button fall in milliseconds 1, 2, ...: the
\* click made with n pages reads n.  The quiz taker selects the correct
\* options.
NextPages ==
  \/ HandleAddPage
  \/ HandleDuplicatePage(Len(pages))
  \/ \E direction \in {"prev", "next"} : HandlePageChange(direction)
  \/ HandlePreviewToggle
  \/ \E element \in CurrentPage.elements :
       HandleCheck(element.id, CorrectOf(element))
  \/ \E t \in timeouts : AutoAdvanceFires(t)
  \/ \E t \in timeouts : PageChangeFires(t)
  \/ AnimationFrame

SpecPages == InitPages /\ [][NextPages]_vars

(***************************************************************************)
(* SpecSession: a quiz of one question from its authoring: the quiz is     *)
(* started, saved with the button of QuizProgress, ended by hand and       *)
(* restarted from the summary, the page is loaded anew, and seconds pass.  *)
(***************************************************************************)
NextSession ==
  \/ HandlePreviewToggle
  \/ HandleQuizRestart
  \/ CloseSummary
  \/ isPreviewMode /\ frames = <<>> /\ SaveQuizState
  \/ Reload
  \/ AnimationFrame
  \/ Tick

SpecSession == InitPages /\ [][NextSession]_vars

(***************************************************************************)
(* SpecEdits: the author drops questions on the page of a new quiz and     *)
(* deletes them, between preview sessions in which they are answered, the  *)
(* quiz is ended and restarted.                                            *)
(***************************************************************************)
Questions == {Question1, Question2}

NextEdits ==
  \/ \E element \in Questions : HandleElementAdd(element)
  \/ \E element \in Questions : HandleElementDelete(element.id)
  \/ HandlePreviewToggle
  \/ HandleQuizRestart
  \/ CloseSummary
  \/ \E element \in Questions : \E selectedOptions \in Selections(element) :
       HandleCheck(element.id, selectedOptions)
  \/ AnimationFrame

SpecEdits == Init /\ [][NextEdits]_vars

(***************************************************************************)
(* SpecUndo: an author who drops and deletes elements, adds pages, turns   *)
(* them and uses the Undo and Redo buttons.                                *)
(***************************************************************************)
Dropped == {Question1, Grid1}

NextUndo ==
  \/ \E element \in Dropped : HandleElementAdd(element)
  \/ \E element \in Dropped : HandleElementDelete(element.id)
  \/ Undo
  \/ Redo
  \/ HandleAddPage
  \/ \E direction \in {"prev", "next"} : HandlePageChange(direction)
  \/ \E t \in timeouts : PageChangeFires(t)
  \/ AnimationFrame

SpecUndo == Init /\ [][NextUndo]_vars

(***************************************************************************)
(* SpecInRange: sequences of updateScore and updateProgress calls from the *)
(* mount, every updateScore call with 0 <= score <= total.                 *)
(***************************************************************************)
NextInRange ==
  \/ \E e \in ElementIds, s \in Scores, t \in Totals :
       0 <= s /\ s <= t /\ UpdateScore(e, s, t)
  \/ \E e \in ElementIds, c \in BOOLEAN : UpdateProgress(e, c)

SpecInRange == Init /\ [][NextInRange]_vars

(***************************************************************************)
(* SpecJigsaw: a jigsaw puzzle of JigsawRows x JigsawColumns pieces on the *)
(* page of a quiz being authored: its image loads, the pieces are          *)
(* shuffled, reset, clicked and dropped on.                                *)
(***************************************************************************)
ClickedPieces == {0, 1}
DropPoints == {<<30, 40>>}

InitJigsaw ==
  /\ pages = <<Page(1, {Jigsaw1})>>
  /\ state = setTotalElements(ZeroState, 1)
  /\ intervals = {}
  /\ interval = NoHandle
  /\ storage = NullItem
  /\ now = 0
  /\ mounted = TRUE
  /\ last = Op("animationFrame")
  /\ supplied = EmptyMap
  /\ isPreviewMode = FALSE
  /\ showSummary = FALSE
  /\ currentPageIndex = 0
  /\ isPageTransitioning = FALSE
  /\ timeouts = {}
  /\ frames = <<>>
  /\ autoSave = NoTimer
  /\ elements = pages[1].elements
  /\ history = BuiltHistory(<<Jigsaw1>>)
  /\ historyIndex = 1
  /\ piecesState = <<>>

NextJigsaw ==
  \/ InitializePuzzle(Jigsaw1.id)
  \/ \E pieceId \in ClickedPieces, point \in DropPoints :
       HandlePieceDrop(Jigsaw1.id, pieceId, point[1], point[2])
  \/ \E pieceId \in ClickedPieces : HandlePieceRotate(Jigsaw1.id, pieceId)
  \/ ShufflePieces(Jigsaw1.id)
  \/ ResetPuzzle(Jigsaw1.id)

SpecJigsaw == InitJigsaw /\ [][NextJigsaw]_vars

(***************************************************************************)
(* SpecAutoSave: a quiz of one question in preview mode from the second it *)
(* is started, with nothing saved: the seconds pass, the quiz taker pauses *)
(* and resumes with the button of QuizProgress, which resumes a paused     *)
(* quiz and pauses any other.                                              *)
(***************************************************************************)
MaxRun == 61         \* seconds the quiz is watched

InitAutoSave ==
  /\ pages = <<Page(1, {Question1})>>
  /\ state = startQuiz(setTotalElements(ZeroState, 1), DateAt(0))
  /\ intervals = {1}
  /\ interval = 1
  /\ storage = NullItem
  /\ now = 0
  /\ mounted = TRUE
  /\ last = [Op("handlePreviewToggle") EXCEPT !.flag = TRUE]
  /\ supplied = EmptyMap
  /\ isPreviewMode = TRUE
  /\ showSummary = FALSE
  /\ currentPageIndex = 0
  /\ isPageTransitioning = FALSE
  /\ timeouts = {}
  /\ frames = <<>>
  /\ autoSave = 0
  /\ elements = pages[1].elements
  /\ history = BuiltHistory(<<Question1>>)
  /\ historyIndex = 1
  /\ piecesState = <<>>

NextAutoSave ==
  \/ Elapse(MaxRun)
  \/ isPreviewMode /\ ~state.isPaused /\ PauseQuiz
  \/ isPreviewMode /\ state.isPaused /\ ResumeQuiz

SpecAutoSave == InitAutoSave /\ [][NextAutoSave]_vars

(***************************************************************************)
(* SpecSummary: the completion summary of a session in which elements are  *)
(* counted, completed and reopened.                                        *)
(***************************************************************************)
SummaryTotals == 0..3

NextSummary ==
  \/ \E e \in ElementIds, c \in BOOLEAN : UpdateProgress(e, c)
  \/ \E n \in SummaryTotals : SetTotalElements(n)
  \/ GetCompletionSummary

SpecSummary == Init /\ [][NextSummary]_vars

(***************************************************************************)
(* SpecForeign: a session whose scores and progress are reported, with     *)
(* payloads of the right shape under the key that the store did not write, *)
(* and loaded.                                                             *)
(***************************************************************************)
NextForeign ==
  \/ \E e \in ElementIds, s \in Scores, t \in Totals : UpdateScore(e, s, t)
  \/ \E e \in ElementIds, c \in BOOLEAN : UpdateProgress(e, c)
  \/ \E item \in InconsistentItems : ExternalWrite(item)
  \/ LoadQuizState

SpecForeign == Init /\ [][NextForeign]_vars

(***************************************************************************)
(* SpecWidgets: a quiz of one page with a multiple-choice question, a grid *)
(* puzzle and a crossword, after the total-elements effect has counted     *)
(* them: the author and the quiz taker use the widgets, the quiz is        *)
(* started, ended and restarted.  The crossword is one of those with one   *)
(* or two cells in a row and one clue across them.                         *)
(***************************************************************************)
CrosswordLetters == {"", "A", "B"}
CrosswordAnswers == {<<>>, <<"A">>, <<"A", "B">>}
CrosswordPositions == {{<<0, 0>>}, {<<0, 0>>, <<0, 1>>}}

Crosswords ==
  { Crossword("c1", [position \in positions |-> CrosswordCell(letters[position])],
              <<CrosswordClue("across", answer, 0, 0)>>) :
      positions \in CrosswordPositions,
      letters \in [{<<0, 0>>, <<0, 1>>} -> CrosswordLetters],
      answer \in CrosswordAnswers }

InitWidgets ==
  /\ \E crossword \in Crosswords :
       pages = <<Page(1, {Question1, Grid1, crossword})>>
  /\ state = setTotalElements(ZeroState, 3)
  /\ intervals = {}
  /\ interval = NoHandle
  /\ storage = NullItem
  /\ now = 0
  /\ mounted = TRUE
  /\ last = Op("animationFrame")
  /\ supplied = EmptyMap
  /\ isPreviewMode = FALSE
  /\ showSummary = FALSE
  /\ currentPageIndex = 0
  /\ isPageTransitioning = FALSE
  /\ timeouts = {}
  /\ frames = <<>>
  /\ autoSave = NoTimer
  /\ elements = pages[1].elements
  /\ history = <<{}, {Question1}, {Question1, Grid1}, pages[1].elements>>
  /\ historyIndex = 3
  /\ piecesState = <<>>

NextWidgets ==
  \/ HandlePreviewToggle
  \/ HandleQuizRestart
  \/ CloseSummary
  \/ \E selectedOptions \in Selections(Question1) :
       HandleCheck(Question1.id, selectedOptions)
  \/ \E cellId \in GridCells : HandleCellUpdate(Grid1.id, cellId)
  \/ ValidateAnswers("c1")

SpecWidgets == InitWidgets /\ [][NextWidgets]_vars

(***************************************************************************)
(* SpecGrid: the quiz of SpecWidgets, the author also typing in the rows   *)
(* and columns inputs of the grid puzzle.                                  *)
(***************************************************************************)
InputTexts ==
  { <<"2">>, <<"4">>, <<"1", "1">>, <<"0">>, <<"-", "3">>, <<"-", "1">>,
    <<>>, <<"-">>, <<"a", "b", "c">>, <<"2", "x">>, <<" ", "5">> }

NextGrid ==
  \/ NextWidgets
  \/ \E field \in {"rows", "columns"}, text \in InputTexts :
       HandleGridResize(Grid1.id, field, text)

SpecGrid == InitWidgets /\ [][NextGrid]_vars

(***************************************************************************)
(* Properties.                                                             *)
(***************************************************************************)
RECURSIVE SumOf(_, _)
SumOf(f, S) ==
  IF S = {} THEN 0
  ELSE LET x == CHOOSE y \in S : TRUE IN f[x] + SumOf(f, S \ {x})

ScoreOf(progress) == [e \in DOMAIN progress |-> progress[e].score]

EntryCompleted(progress, e) ==
  IF e \in DOMAIN progress THEN progress[e].completed ELSE FALSE

EntryAttempts(progress, e) ==
  IF e \in DOMAIN progress THEN progress[e].attempts ELSE 0

\* C1: after every updateScore and updateProgress call from the zero state,
\* completedElements is the number of progress entries whose completed flag
\* is true.
C1_CompletedElementsIsCount ==
  state.completedElements =
    Cardinality({e \in ElementIds :
                   e \in DOMAIN state.progress /\ state.progress[e].completed = TRUE})

\* both elements have an entry, one made by updateProgress alone and not
\* completed, the other completed; the last call reported a score
C1_Witness ==
  /\ last.op = "updateScore"
  /\ state.completedElements = 1
  /\ DOMAIN state.progress = ElementIds
  /\ \E e \in ElementIds : ~state.progress[e].completed /\ state.progress[e].attempts = 0

\* C2: updateScore(elementId, score, total) replaces the element's score by
\* score, adds exactly 1 to its attempts, keeps its completed flag (false for
\* a new entry), leaves every other entry as it was, and sets currentScore to
\* the sum of the scores of all entries.
C2_UpdateScoreOverwrites ==
  [][ last'.op = "updateScore" =>
        LET e == last'.elementId
            old == state.progress
            new == state'.progress
        IN /\ DOMAIN new = DOMAIN old \cup {e}
           /\ new[e].score = last'.score
           /\ new[e].attempts = EntryAttempts(old, e) + 1
           /\ new[e].completed = EntryCompleted(old, e)
           /\ \A x \in DOMAIN old \ {e} : new[x] = old[x]
           /\ state'.currentScore = SumOf(ScoreOf(new), DOMAIN new) ]_vars

\* a second attempt on a completed element, with a lower score, while another
\* element has an entry
C2_Witness ==
  /\ last.op = "updateScore"
  /\ last.elementId = "e1"
  /\ DOMAIN state.progress = {"e1", "e2"}
  /\ state.progress["e1"].attempts = 2
  /\ state.progress["e1"].completed
  /\ state.progress["e1"].score = 50
  /\ state.progress["e2"].score = 100
  /\ state.currentScore = 150

C4_RetryReplacesContribution ==
  [][ ( /\ last'.op = "updateScore"
        /\ last'.elementId \in DOMAIN state.progress
        /\ state.progress[last'.elementId].attempts > 0
        /\ last'.elementId \in DOMAIN supplied
        /\ supplied[last'.elementId] = last'.total )
      => /\ state'.totalScore = state.totalScore
         /\ state'.currentScore =
              state.currentScore - state.progress[last'.elementId].score + last'.score
    ]_vars

\* C5: resetQuiz() yields the zero state: no score, no progress, no
\* feedback, no elapsed time, nothing completed, not paused, timer not
\* active, start and end time unset.
C5_ResetYieldsZeroState ==
  [][ last'.op = "resetQuiz" =>
        /\ state'.currentScore = 0
        /\ state'.totalScore = 0
        /\ DOMAIN state'.progress = {}
        /\ DOMAIN state'.feedback = {}
        /\ state'.timeElapsed = 0
        /\ state'.completedElements = 0
        /\ state'.isPaused = FALSE
        /\ state'.isTimerActive = FALSE
        /\ state'.startTime.kind = "undefined"
        /\ state'.endTime.kind = "undefined" ]_vars

\* a reset after a score was reported and seconds of a started quiz went by
C5_Witness ==
  /\ last.op = "resetQuiz"
  /\ DOMAIN supplied # {}
  /\ now >= 2
  /\ state.timeElapsed = 0
  /\ DOMAIN state.progress = {}

\* C6: loadQuizState() with no item under the key, or an item that does not
\* parse, or parses to something that is no object, or to an object lacking
\* a required property, leaves the state as it was and ends without loading
\* (and without an exception leaving the try block).
PayloadIsValid(item) ==
  item.kind = "object" /\ RequiredFields \subseteq item.fields

C6_FailedLoadKeepsState ==
  [][ (last'.op = "loadQuizState" /\ ~PayloadIsValid(storage)) =>
        /\ state' = state
        /\ intervals' = intervals
        /\ last'.outcome \in {"skipped", "caught", "invalid"} ]_vars

\* a load of an object lacking a property, into a state that is not the zero
\* state
C6_Witness ==
  /\ last.op = "loadQuizState"
  /\ last.outcome = "invalid"
  /\ storage.kind = "object"
  /\ "progress" \notin storage.fields
  /\ state.timeElapsed > 0
  /\ DOMAIN state.progress # {}

\* C7: while isPaused no tick changes timeElapsed; pauseQuiz and resumeQuiz
\* leave timeElapsed as it is; the tick after resumeQuiz of a started quiz
\* that has not ended adds exactly 1 to the frozen value.
C7_PauseFreezesElapsed ==
  [][ /\ (last'.op = "tick" /\ state.isPaused) =>
           state'.timeElapsed = state.timeElapsed
      /\ last'.op \in {"pauseQuiz", "resumeQuiz"} =>
           state'.timeElapsed = state.timeElapsed
      /\ ( /\ last.op = "resumeQuiz"
           /\ last'.op = "tick"
           /\ mounted
           /\ Truthy(state.startTime)
           /\ ~Truthy(state.endTime) ) =>
           state'.timeElapsed = state.timeElapsed + 1 ]_vars

\* started at 0, one second counted, one second spent paused, resumed, and
\* the second after that counted
C7_Witness ==
  /\ last.op = "tick"
  /\ state.startTime = DateAt(0)
  /\ ~Truthy(state.endTime)
  /\ ~state.isPaused
  /\ state.isTimerActive
  /\ now = 3
  /\ state.timeElapsed = 2

\* C8: endQuiz() sets endTime and clears isTimerActive and no interval is
\* live afterwards; while endTime is set, ticks, pauseQuiz and resumeQuiz
\* leave timeElapsed and endTime as they are.
C8_EndFreezesElapsed ==
  [][ /\ last'.op = "endQuiz" =>
           /\ Truthy(state'.endTime)
           /\ ~state'.isTimerActive
           /\ intervals' = {}
      /\ ( /\ Truthy(state.endTime)
           /\ last'.op \in {"tick", "pauseQuiz", "resumeQuiz"} ) =>
           /\ state'.timeElapsed = state.timeElapsed
           /\ state'.endTime = state.endTime
           /\ intervals' = {} ]_vars

\* ended after a counted second, then paused and resumed, then a second
\* went by
C8_Witness ==
  /\ last.op = "tick"
  /\ Truthy(state.endTime)
  /\ state.isTimerActive
  /\ ~state.isPaused
  /\ now > state.endTime.t
  /\ state.timeElapsed = 1

\* C9: a tick adds 1 to timeElapsed exactly when isTimerActive and not
\* isPaused hold in the state it is taken in.
C9_TickIffTimerActive ==
  [][ (last'.op = "tick" /\ mounted) =>
        ( (state'.timeElapsed = state.timeElapsed + 1)
          <=> (state.isTimerActive /\ ~state.isPaused) ) ]_vars

\* C10: at most one interval is live; none is live after pauseQuiz, endQuiz,
\* resetQuiz or the unmount; a second startQuiz leaves exactly one; and a
\* second of wall-clock time adds at most 1 to timeElapsed.
C10_OneCancellableInterval ==
  [][ /\ Cardinality(intervals') <= 1
      /\ last'.op \in {"pauseQuiz", "endQuiz", "resetQuiz", "unmount"} =>
           intervals' = {}
      /\ last'.op = "startQuiz" => intervals' = {interval'}
      /\ last'.op = "tick" =>
           state'.timeElapsed <= state.timeElapsed + 1 ]_vars

\* a startQuiz on a running quiz: the interval it found was cleared and
\* another one is live
C10_Witness ==
  /\ last.op = "startQuiz"
  /\ now >= 1
  /\ state.timeElapsed = 0
  /\ interval = 2
  /\ intervals = {2}

(***************************************************************************)
(* Properties of the editor.  The spec's states in the editor's values:    *)
(* Previewing is isPreviewMode, Authoring its negation, Summarized is      *)
(* showSummary.                                                            *)
(***************************************************************************)
\* the scorable elements of the page shown, and those the store has completed
ScorableShown == {element \in CurrentPage.elements : isQuizElement(element.type)}

CompletedShown ==
  {element \in ScorableShown : EntryCompleted(state.progress, element.id)}

\* the page shown has a scorable element and all of them are completed
PageDone == ScorableShown # {} /\ CompletedShown = ScorableShown

OnLastPage == currentPageIndex = Len(pages) - 1

\* C12: in preview mode, every step that checks an answer, or that makes
\* the page shown the last page with all its scorable elements (at least
\* one) completed, leaves endTime set, isTimerActive false, no interval
\* live, and the summary shown.
C12_LastPageDoneEndsQuiz ==
  [][ ( /\ isPreviewMode' /\ PageDone' /\ OnLastPage'
        /\ \/ last'.op = "handleCheck"
           \/ ~(isPreviewMode /\ PageDone /\ OnLastPage) )
      => /\ Truthy(state'.endTime)
         /\ ~state'.isTimerActive
         /\ intervals' = {}
         /\ showSummary' ]_vars

\* the second page of two, a question and a text on it, the question just
\* answered correctly
C12_Witness ==
  /\ last.op = "handleCheck"
  /\ last.score = 100
  /\ isPreviewMode
  /\ Len(pages) = 2
  /\ currentPageIndex = 1
  /\ CurrentPage.elements = {Question1, Text1}
  /\ PageDone
  /\ showSummary
  /\ Truthy(state.endTime)
  /\ intervals = {}

\* C11: in preview mode, once an answer was checked and the page shown, page
\* i, has all its scorable elements (at least one) completed and is not the
\* last page, the page index becomes i + 1, unless the editor unmounts.
C11_PageDoneAdvances ==
  \A i \in 0..(MaxPages - 2) :
    ( /\ last.op = "handleCheck" /\ mounted /\ isPreviewMode
      /\ currentPageIndex = i /\ PageDone /\ ~OnLastPage )
    ~> (currentPageIndex = i + 1 \/ ~mounted)

\* the question on the first page was answered correctly and the second
\* page, which is empty, is shown
C11_Witness ==
  /\ last.op = "pageChange"
  /\ isPreviewMode
  /\ Len(pages) = 2
  /\ currentPageIndex = 1
  /\ pages[1].elements = {Question1, Text1}
  /\ pages[2].elements = {}
  /\ EntryCompleted(state.progress, "e1")
  /\ timeouts = {}
  /\ ~showSummary

\* an auto-advance callback of the page shown is pending
AdvancePending ==
  \E t \in timeouts : t.kind = "autoAdvance" /\ t.index = currentPageIndex

\* C13, as stated: in preview mode a page shown that has no scorable
\* element counts as complete: once the quiz is started on it, or it is
\* arrived at, an auto-advance to the next page is pending or, on the last
\* page, the quiz is ended and the summary shown.
C13_EmptyPageAdvancesOrEnds ==
  [][ ( /\ isPreviewMode' /\ ScorableShown' = {}
        /\ last'.op \in {"handlePreviewToggle", "pageChange"} )
      => IF OnLastPage' THEN Truthy(state'.endTime) /\ showSummary'
         ELSE AdvancePending' ]_vars

\* C13, amended: in preview mode a step that leaves a page without scorable
\* elements shown schedules no auto-advance, does not end the quiz and does
\* not show the summary.
C13_EmptyPageStays ==
  [][ (isPreviewMode' /\ ScorableShown' = {})
      => /\ \A t \in timeouts' \ timeouts : t.kind # "autoAdvance"
         /\ showSummary' => showSummary
         /\ state'.endTime # state.endTime => ~Truthy(state'.endTime) ]_vars

\* the quiz was started on the first of two pages, which holds a text only:
\* nothing is pending, the timer runs, no summary
C13_Witness ==
  /\ last.op = "handlePreviewToggle"
  /\ isPreviewMode
  /\ Len(pages) = 2
  /\ currentPageIndex = 0
  /\ CurrentPage.elements = {Text1}
  /\ timeouts = {}
  /\ ~showSummary
  /\ ~Truthy(state.endTime)
  /\ intervals # {}

\* C14: once the quiz was ended by hand (the editor is back in authoring)
\* or the editor has unmounted, an auto-advance callback scheduled earlier
\* changes nothing: not the page index, not isPageTransitioning, not the
\* store, and it schedules no page change.
C14_DanglingAdvanceChangesNothing ==
  [][ (last'.op = "autoAdvance" /\ (~isPreviewMode \/ ~mounted))
      => /\ UNCHANGED <<currentPageIndex, isPageTransitioning, state>>
         /\ timeouts' \subseteq timeouts ]_vars

\* C15: in preview mode, no frame callback pending, totalElements is the
\* number of scorable elements on all pages.
C15_TotalElementsCountsAllPages ==
  (mounted /\ isPreviewMode /\ frames = <<>>)
    => state.totalElements = TotalQuizElements(pages)

\* C16: after Restart the progress and the feedback are empty, both scores
\* and the elapsed time are 0, the timer runs, and the editor is in preview
\* mode.
C16_RestartEntersPreview ==
  [][ last'.op = "handleQuizRestart"
      => /\ state'.progress = EmptyMap
         /\ state'.feedback = EmptyMap
         /\ state'.currentScore = 0
         /\ state'.totalScore = 0
         /\ state'.timeElapsed = 0
         /\ state'.isTimerActive
         /\ intervals' # {}
         /\ ~showSummary'
         /\ isPreviewMode' ]_vars

\* C17: End Quiz, the toggle in preview mode, leaves endTime set to the
\* time of the click, isTimerActive false, no interval live, the summary
\* shown and the editor in authoring; Start Quiz, the toggle in authoring,
\* leaves the editor in preview mode with startTime the time of the click,
\* timeElapsed 0 and not paused, the timer running unless the page shown is
\* the last and already done, which ends the quiz at once.
C17_ToggleEndsOrStarts ==
  [][ last'.op = "handlePreviewToggle"
      => IF isPreviewMode
         THEN /\ state'.endTime = DateAt(now)
              /\ ~state'.isTimerActive
              /\ intervals' = {}
              /\ showSummary'
              /\ ~isPreviewMode'
         ELSE /\ isPreviewMode'
              /\ state'.startTime = DateAt(now)
              /\ state'.timeElapsed = 0
              /\ ~state'.isPaused
              /\ state'.progress = state.progress
              /\ IF PageDone' /\ OnLastPage'
                 THEN Truthy(state'.endTime) /\ intervals' = {} /\ showSummary'
                 ELSE /\ ~Truthy(state'.endTime)
                      /\ state'.isTimerActive
                      /\ intervals' # {}
                      /\ showSummary' = showSummary ]_vars

\* a second session: the quiz was answered, ended by hand, the summary
\* closed, and started again with the progress of the first session
C17_Witness ==
  /\ last.op = "handlePreviewToggle"
  /\ isPreviewMode
  /\ ~showSummary
  /\ "e1" \in DOMAIN state.progress
  /\ ~state.progress["e1"].completed
  /\ state.isTimerActive
  /\ intervals # {}
  /\ ~Truthy(state.endTime)

(***************************************************************************)
(* Properties of the store, continued.                                     *)
(***************************************************************************)
\* C18: startQuiz() sets startTime to the time of the call, clears endTime,
\* sets isTimerActive true, isPaused false and timeElapsed 0, and leaves
\* progress, feedback, currentScore, totalScore, completedElements and
\* totalElements as they were.
C18_StartQuizFrame ==
  [][ last'.op = "startQuiz"
      => /\ state'.startTime = DateAt(now)
         /\ state'.endTime = Undefined
         /\ state'.isTimerActive = TRUE
         /\ state'.isPaused = FALSE
         /\ state'.timeElapsed = 0
         /\ state'.progress = state.progress
         /\ state'.feedback = state.feedback
         /\ state'.currentScore = state.currentScore
         /\ state'.totalScore = state.totalScore
         /\ state'.completedElements = state.completedElements
         /\ state'.totalElements = state.totalElements ]_vars

\* a quiz started again after seconds of an earlier session have passed,
\* with a scored, completed element, a feedback and a total of elements
C18_Witness ==
  /\ last.op = "startQuiz"
  /\ now = 2
  /\ state.startTime = DateAt(2)
  /\ state.timeElapsed = 0
  /\ "e1" \in DOMAIN state.progress
  /\ state.progress["e1"].completed
  /\ state.progress["e1"].lastAttempt = DateAt(0)
  /\ "e1" \in DOMAIN state.feedback
  /\ state.currentScore = 100
  /\ state.totalScore = 100
  /\ state.completedElements = 1
  /\ state.totalElements = 1

(***************************************************************************)
(* Properties of the multiple-choice question.  The question checked last  *)
(* and the selection it was checked with, counted as the spec counts them. *)
(***************************************************************************)
Checked == CHOOSE element \in CurrentPage.elements : element.id = last.elementId

TotalCorrectOptions == Cardinality(CorrectOf(Checked))
CorrectSelected == Cardinality(last.selected \cap CorrectOf(Checked))
IncorrectSelected == Cardinality(last.selected \ CorrectOf(Checked))
MissedCorrect == Cardinality(CorrectOf(Checked) \ last.selected)

\* round(100 * n / d) for n >= 0, d > 0, a half rounding up
RoundedPercent(n, d) == (200 * n + d) \div (2 * d)

AtLeastZero(n) == IF n < 0 THEN 0 ELSE n

\* C19, as stated, for a question with a correct option: the score reported
\* is round(max(0, correctSelected - incorrectSelected - missedCorrect)
\* / totalCorrectOptions * 100).
C19_ScoreSubtractsMissedFromSelected ==
  (last.op = "handleCheck" /\ TotalCorrectOptions > 0)
    => last.score =
         RoundedPercent(AtLeastZero(CorrectSelected - IncorrectSelected - MissedCorrect),
                        TotalCorrectOptions)

\* C19, amended: the score reported is round(max(0, correctSelected -
\* incorrectSelected) / totalCorrectOptions * 100), the missed correct
\* options counting once, as the ones not selected; it is 0 for a question
\* without a correct option.
C19_ScoreIsSelectedCorrectLessIncorrect ==
  last.op = "handleCheck"
    => last.score =
         IF TotalCorrectOptions = 0 THEN 0
         ELSE RoundedPercent(AtLeastZero(CorrectSelected - IncorrectSelected),
                             TotalCorrectOptions)

\* one of two correct options selected and nothing else: half the score
C19_Witness ==
  /\ last.op = "handleCheck"
  /\ TotalCorrectOptions = 2
  /\ Cardinality(Checked.options) = 4
  /\ CorrectSelected = 1
  /\ IncorrectSelected = 0
  /\ MissedCorrect = 1
  /\ last.score = 50
  /\ state.progress["e1"].score = 50

\* C20: after Check Answer the element is completed in the store, and its
\* feedback is correct, exactly when the score reported is 100, and that
\* is exactly when the selection is the set of the correct options.
C20_CompletedIffSelectionIsCorrectSet ==
  last.op = "handleCheck"
    => /\ state.progress[last.elementId].completed = (last.score = 100)
       /\ state.feedback[last.elementId].isCorrect = (last.score = 100)
       /\ (last.score = 100) = (last.selected = CorrectOf(Checked))

(***************************************************************************)
(* The widgets and the store.                                              *)
(***************************************************************************)
\* C21: after every reveal of a cell of a grid puzzle in preview mode the
\* store holds, for the puzzle, the score
\* round(revealedCells / totalCells * 100), and its completed flag is true
\* exactly when all cells are revealed.
C21_RevealReportsScore ==
  [][last'.op = "handleCellUpdate" =>
       /\ last'.elementId \in DOMAIN state'.progress
       /\ state'.progress[last'.elementId].score =
            RoundedPercent(Cardinality(last'.revealed), Cardinality(GridCells))
       /\ state'.progress[last'.elementId].completed = (last'.revealed = GridCells)]_vars

CorrectLetterCells(cells) ==
  Cardinality({position \in DOMAIN cells : cells[position].isCorrect = "true"})

AnswerCells(cells) ==
  Cardinality({position \in DOMAIN cells : cells[position].isCorrect # "undefined"})

\* C22: the crossword's answers are checked in preview mode, and the check
\* leaves in the store, for the crossword, the score
\* round(correctLetterCells / totalAnswerCells * 100) and a completed flag
\* that is true exactly when that score is 100.
C22_CheckAnswersReportsScore ==
  [][last'.op = "validateAnswers" =>
       /\ isPreviewMode
       /\ last'.elementId \in DOMAIN state'.progress
       /\ AnswerCells(last'.validated) > 0 =>
            state'.progress[last'.elementId].score =
              RoundedPercent(CorrectLetterCells(last'.validated),
                             AnswerCells(last'.validated))
       /\ state'.progress[last'.elementId].completed =
            (state'.progress[last'.elementId].score = 100)]_vars

WidgetOps == {"handleCheck", "handleCellUpdate", "validateAnswers"}

\* C23: while the editor is authoring (not in preview mode) no interaction
\* with a widget evaluates answers (the multiple-choice check, the
\* crossword's validation) or changes what updateScore, updateProgress and
\* setFeedback set.
C23_NoEvaluationWhileAuthoring ==
  [][~isPreviewMode /\ last'.op \in WidgetOps =>
       /\ last'.op \notin {"handleCheck", "validateAnswers"}
       /\ state'.progress = state.progress
       /\ state'.feedback = state.feedback
       /\ state'.currentScore = state.currentScore
       /\ state'.totalScore = state.totalScore
       /\ state'.completedElements = state.completedElements]_vars

(***************************************************************************)
(* Saving and loading.                                                     *)
(***************************************************************************)
EqualButLastSaved(a, b) ==
  [a EXCEPT !.lastSavedState = Undefined] = [b EXCEPT !.lastSavedState = Undefined]

\* C24: saveQuizState followed by loadQuizState is a round trip.  What a
\* save writes reads back as the live state of the moment of the save in
\* every field other than lastSavedState, which reads back as the time of
\* the save; and a load of a valid payload makes the payload the live state
\* as a whole, whatever the live state has become since the save.
C24_SaveLoadRoundTrip ==
  [][/\ last'.op = "saveQuizState" =>
          /\ isValidQuizState(storage')
          /\ AsState(storage').lastSavedState = IsoAt(now)
          /\ EqualButLastSaved(AsState(storage'), state)
     /\ last'.op = "loadQuizState" /\ last'.outcome = "loaded" =>
          state' = AsState(storage)]_vars

\* C26: after any mutation of the store, a successful loadQuizState of a
\* payload that passes the required-field check included, completedElements
\* is the number of progress entries whose completed is true.
C26_CountHoldsAfterAnyMutation ==
  [][state' # state =>
       state'.completedElements = CountCompleted(state'.progress)]_vars

\* C30: after saveQuizState the lastSavedState of the live state is the
\* timestamp that save wrote.
C30_SaveStampsLiveState ==
  [][last'.op = "saveQuizState" =>
       /\ state'.lastSavedState = AsState(storage').lastSavedState
       /\ state'.lastSavedState = IsoAt(now)]_vars

(***************************************************************************)
(* The completion summary and the remaining callbacks of the store.        *)
(***************************************************************************)
\* C27: the completionPercentage of getCompletionSummary() is 0 whenever
\* totalElements is 0, whatever completedElements is, and otherwise it is
\* completedElements / totalElements * 100; the call leaves the state as it
\* is.
C27_CompletionPercentage ==
  [][last'.op = "getCompletionSummary" =>
       LET percentage == last'.summary.completionPercentage
       IN /\ state' = state
          /\ percentage.kind = "ratio"
          /\ state.totalElements = 0 => percentage.n = 0
          /\ state.totalElements # 0 =>
               percentage.n * state.totalElements
                 = state.completedElements * 100 * percentage.d]_vars

\* the summary has been asked for with nothing counted and an element
\* completed
C27_Witness ==
  /\ last.op = "getCompletionSummary"
  /\ state.totalElements = 0
  /\ state.completedElements > 0
  /\ last.summary.completionPercentage.n = 0

\* C28: updateProgress(elementId, completed) sets the completed flag of the
\* element's entry and nothing else of it: an entry that exists keeps its
\* score and its attempts, one that does not is created with score 0 and
\* attempts 0.  The other entries, currentScore, totalScore, feedback and
\* the rest of the state stay as they were, and completedElements becomes
\* the number of completed entries.
C28_UpdateProgressFrame ==
  [][last'.op = "updateProgress" =>
       LET e == last'.elementId
           old == state.progress
           new == state'.progress
       IN /\ DOMAIN new = DOMAIN old \cup {e}
          /\ new[e].completed = last'.flag
          /\ e \in DOMAIN old => new[e] = [old[e] EXCEPT !.completed = last'.flag]
          /\ e \notin DOMAIN old => new[e].score = 0 /\ new[e].attempts = 0
          /\ \A x \in DOMAIN old \ {e} : new[x] = old[x]
          /\ state'.completedElements = CountCompleted(new)
          /\ state' = [state EXCEPT !.progress = new,
                                    !.completedElements = CountCompleted(new)]]_vars

\* an element that has been scored twice is marked completed while another
\* element has its entry
C28_Witness ==
  /\ last.op = "updateProgress"
  /\ last.elementId = "e1"
  /\ last.flag
  /\ DOMAIN state.progress = {"e1", "e2"}
  /\ state.progress["e1"].completed
  /\ state.progress["e1"].score = 50
  /\ state.progress["e1"].attempts = 2
  /\ state.progress["e2"].score = 100
  /\ ~state.progress["e2"].completed
  /\ state.currentScore = 150
  /\ state.completedElements = 1

\* C29: setTotalElements(count) is idempotent.  Called with the
\* totalElements the state has, it leaves the state as it is and produces
\* no new state (nothing is rendered, the timer is not touched); a second
\* call with the same count changes nothing after the first; and no field
\* but totalElements is ever modified.
C29_SetTotalElementsIdempotent ==
  [][last'.op = "setTotalElements" =>
       /\ state' = [state EXCEPT !.totalElements = last'.count]
       /\ last'.flag =>
            /\ state' = state
            /\ intervals' = intervals
            /\ interval' = interval
       /\ setTotalElements(state', last'.count) = state']_vars

\* the count of a quiz that is running and has an element completed is
\* given once more
C29_Witness ==
  /\ last.op = "setTotalElements"
  /\ last.flag
  /\ last.count = 1
  /\ state.totalElements = 1
  /\ state.completedElements = 1
  /\ state.isTimerActive
  /\ state.timeElapsed > 0

(***************************************************************************)
(* Auto-save.                                                              *)
(***************************************************************************)
\* the quiz has been running in preview mode, ticking every second, for a
\* minute or more
RanAMinute ==
  /\ isPreviewMode
  /\ state.isTimerActive
  /\ ~state.isPaused
  /\ state.totalElements > 0
  /\ state.timeElapsed = now
  /\ now >= AutoSavePeriod

\* C25: a quiz that has run in preview mode for 60 seconds without
\* interruption has been saved at least once, and no second that passes
\* while the quiz is paused saves it.
C25_RunningQuizIsAutoSaved ==
  /\ [](RanAMinute => storage # NullItem)
  /\ [][state.isPaused => storage' = storage]_vars

(***************************************************************************)
(* The pages.                                                              *)
(***************************************************************************)
\* C31: in every state, after any add-page, duplicate-page, manual
\* navigation and auto-advance callback, stale or not, the page index
\* names a page: 0 <= currentPageIndex < number of pages.
C31_OnePageIsCurrent ==
  /\ currentPageIndex >= 0
  /\ currentPageIndex < Len(pages)

\* an auto-advance callback scheduled on another page than the one shown
\* has run, the last page being shown, in a quiz with a duplicated page
C31_Witness ==
  /\ last.op = "autoAdvance"
  /\ last.flag
  /\ currentPageIndex = Len(pages) - 1
  /\ \E i \in DOMAIN pages : \E element \in pages[i].elements :
       element.id = CopyId(Question1.id, 1)

(***************************************************************************)
(* The jigsaw puzzle.                                                      *)
(***************************************************************************)
\* C32: in every state, after any initialise, shuffle, rotate, drop and
\* reset, a piece's isCorrect is true exactly when its currentIndex is its
\* originalIndex and its rotation is 0.
C32_IsCorrectIffInPlaceAndUpright ==
  \A i \in DOMAIN piecesState :
    piecesState[i].isCorrect
      <=> /\ piecesState[i].currentIndex = piecesState[i].originalIndex
          /\ piecesState[i].rotation = 0

(***************************************************************************)
(* The grid puzzle's dimensions.                                           *)
(***************************************************************************)
\* C33: after any text typed in the rows or the columns input (a negative
\* number, 0, a number above 10, text that is no number), the rows and the
\* columns the grid puzzle hands over to be stored are at least 1 each and
\* its cell list has rows * columns cells.
C33_ResizeIsClamped ==
  [][last'.op = "handleGridResize"
       => /\ last'.resized.rows >= 1
          /\ last'.resized.columns >= 1
          /\ Len(last'.resized.cells) = last'.resized.rows * last'.resized.columns]_vars

(***************************************************************************)
(* The timer and the editor's mode.                                        *)
(***************************************************************************)
\* C34: while the editor is authoring (not in preview mode) no second that
\* passes adds to timeElapsed, also after a saved state was loaded at
\* startup and after Restart on the summary of a quiz ended by hand.
C34_NoTickWhileAuthoring ==
  [][~isPreviewMode /\ last'.op = "tick"
       => state'.timeElapsed = state.timeElapsed]_vars

(***************************************************************************)
(* The counts of the progress bar.                                         *)
(***************************************************************************)
\* C35: after any adding and deleting of elements, preview sessions,
\* scoring calls and restarts, once the count of the pages' quiz elements
\* has reached the store, completedElements is at most totalElements when
\* totalElements > 0, and the completion percentage is within 0..100.
C35_CompletedWithinTotal ==
  (frames = <<>> /\ state.totalElements > 0)
    => /\ state.completedElements <= state.totalElements
       /\ getCompletionSummary(state).completionPercentage.n
            <= 100 * getCompletionSummary(state).completionPercentage.d

(***************************************************************************)
(* The score and its maximum.                                              *)
(***************************************************************************)
\* C36: in every state reached by updateScore calls with
\* 0 <= score <= total, of whatever totals, and updateProgress calls,
\* currentScore is at most totalScore.
C36_CurrentScoreWithinTotal == state.currentScore <= state.totalScore

(***************************************************************************)
(* Entering preview mode.                                                  *)
(***************************************************************************)
\* C37: Start Quiz pressed while authoring does not by itself end the quiz
\* or turn the page, whatever progress an earlier session has left in the
\* store: after it the quiz is running, the summary is as it was and no
\* auto-advance has been scheduled.
C37_EnteringPreviewOnlyStarts ==
  [][last'.op = "handlePreviewToggle" /\ ~isPreviewMode
       => /\ isPreviewMode'
          /\ ~Truthy(state'.endTime)
          /\ state'.isTimerActive
          /\ showSummary' = showSummary
          /\ timeouts' = timeouts]_vars

(***************************************************************************)
(* Changes made on the canvas.                                             *)
(***************************************************************************)
\* C38: after a cell of a grid puzzle is revealed in preview mode, the
\* element with the cell revealed is in the elements of the page shown and
\* in the elements displayed.
C38_CanvasChangeIsKept ==
  [][last'.op = "handleCellUpdate"
       => /\ \E el \in pages'[currentPageIndex' + 1].elements :
               el.id = last'.elementId /\ el.revealed = last'.revealed
          /\ \E el \in elements' :
               el.id = last'.elementId /\ el.revealed = last'.revealed]_vars

(***************************************************************************)
(* Undo and redo.                                                          *)
(***************************************************************************)
\* C39: after undo the elements displayed are the snapshot before the one
\* that was current, after redo they are the snapshot after it, and the
\* history index stays within the history.
C39_UndoRestoresSnapshot ==
  [][/\ last'.op = "undo"
          => /\ historyIndex' = historyIndex - 1
             /\ elements' = history[historyIndex]
     /\ last'.op = "redo"
          => /\ historyIndex' = historyIndex + 1
             /\ elements' = history[historyIndex + 2]
     /\ historyIndex' \in 0 .. Len(history') - 1]_vars

\* the part of C39 about the index, which holds
HistoryIndexInRange == historyIndex \in 0 .. Len(history) - 1

====
